---- MODULE Spec2Model ----
(***************************************************************************)
(* A model of the Streaky Bay development application scraper              *)
(* (src/scraper.ts and the earlier revisions kept under src/unnamed).      *)
(*                                                                         *)
(* A JavaScript string is modelled as a sequence of one-character strings, *)
(* so that trimming, splitting, regular-expression tests, case folding and *)
(* edit distances are computed and not assumed.                            *)
(***************************************************************************)
EXTENDS Integers, Sequences, FiniteSets, TLC

VARIABLES
    address,                \* formatAddress: the raw address passed in
    formatted,              \* formatAddress: the locals at return, or Pending
    formattedAgain,         \* formatAddress: the locals at the return of a second call
    lastIndex,              \* formatAddress: lastIndex of /\bSA\b/g after its last test
    suburbFile,             \* the lines of suburbnames.txt
    lookup,                 \* a suburb name looked up among the suburb names, or Pending
    pageOptions,            \* parsePdf: what the page being parsed holds
    pageParser,             \* parsePdf: the parser chosen for the page, or Pending
    pageResult,             \* parsePdf: what that parser returned, or Pending
    addressFields,          \* parseAddress: the fields it is applied to
    parsedAddress,          \* parseAddress: what it returned, or Pending
    pc,                     \* main: where it is
    selectedPdfUrls,        \* main: the PDFs selected
    pdfIndex,               \* main: which of the selected PDFs is being processed
    numPages,               \* parsePdf: pdf.numPages
    pageIndex,              \* parsePdf: the loop counter
    pages,                  \* parsePdf: what the page parser returned, per page
    developmentApplications,\* parsePdf: the accumulated records
    saveIndex,              \* main: the next record to hand to insertRow
    database,               \* rows of [data], as stored by src/scraper.ts
    databaseOrIgnore,       \* rows of [data], as stored by the earlier revision
    inserted,               \* the records handed to insertRow so far, in order
    rejected,               \* the records for which insertRow rejected
    acquired,               \* parsePdf: how many times pdfjs.getDocument returned
    destroyed,              \* parsePdf: how many times pdf.destroy() was called
    candidateA,             \* addressComparer: the first address compared
    candidateB,             \* addressComparer: the second address compared
    compared,               \* addressComparer: what it returned, or Pending
    sorted,                 \* [candidateA, candidateB].sort(addressComparer), or <<>>
    overlapElement,         \* getPercentageOfElementInRectangle: the element
    overlapRectangle,       \* getPercentageOfElementInRectangle: the rectangle
    overlapPercentage,      \* getPercentageOfElementInRectangle: what it returned, or Pending
    StreetNames,            \* street name -> suburb names
    StreetSuffixes,         \* street suffix abbreviation -> street suffix
    SuburbNames,            \* suburb name -> suburb name with state and post code
    HundredNames            \* hundred name -> suburb names

vars == <<address, formatted, formattedAgain, lastIndex, suburbFile, lookup,
          pageOptions, pageParser, pageResult, addressFields, parsedAddress, pc, selectedPdfUrls, pdfIndex, numPages, pageIndex,
          pages, developmentApplications, saveIndex, database, databaseOrIgnore,
          inserted, rejected, acquired, destroyed,
          candidateA, candidateB, compared, sorted,
          overlapElement, overlapRectangle, overlapPercentage,
          StreetNames, StreetSuffixes, SuburbNames, HundredNames>>

Pending == [exit |-> "pending"]
Undefined == <<"<undefined>">>
Null == <<"<null>">>

----------------------------------------------------------------------------
(* Characters and strings                                                  *)

LowerCase == <<"a","b","c","d","e","f","g","h","i","j","k","l","m",
               "n","o","p","q","r","s","t","u","v","w","x","y","z">>
UpperCase == <<"A","B","C","D","E","F","G","H","I","J","K","L","M",
               "N","O","P","Q","R","S","T","U","V","W","X","Y","Z">>
Digits == {"0","1","2","3","4","5","6","7","8","9"}

Range(s) == {s[i] : i \in 1..Len(s)}
Max(a, b) == IF a >= b THEN a ELSE b
Min(a, b) == IF a <= b THEN a ELSE b

IsDigit(c) == c \in Digits
\* the characters of the class \s that the texts of the model hold
WhiteSpace == {" ", "\t"}
IsSpace(c) == c \in WhiteSpace
IsWordChar(c) == c \in Range(LowerCase) \cup Range(UpperCase) \cup Digits \cup {"_"}

RECURSIVE table(_, _)
table(from, to) ==
    IF Len(from) = 0 THEN <<>>
    ELSE (from[1] :> to[1]) @@ table(Tail(from), Tail(to))
UpperCaseOf == table(LowerCase, UpperCase)
LowerCaseOf == table(UpperCase, LowerCase)

toUpperCaseChar(c) == IF c \in DOMAIN UpperCaseOf THEN UpperCaseOf[c] ELSE c
toLowerCaseChar(c) == IF c \in DOMAIN LowerCaseOf THEN LowerCaseOf[c] ELSE c
toUpperCase(s) == [i \in 1..Len(s) |-> toUpperCaseChar(s[i])]
toLowerCase(s) == [i \in 1..Len(s) |-> toLowerCaseChar(s[i])]

\* String.prototype.trim
trim(s) ==
    LET keep == {i \in 1..Len(s) : ~IsSpace(s[i])}
    IN  IF keep = {} THEN <<>>
        ELSE SubSeq(s, CHOOSE i \in keep : \A j \in keep : i <= j,
                       CHOOSE i \in keep : \A j \in keep : i >= j)

\* s.replace(/X+$/, "") for a character class X
RECURSIVE stripTrailing(_, _)
stripTrailing(s, class) ==
    IF Len(s) > 0 /\ s[Len(s)] \in class
    THEN stripTrailing(SubSeq(s, 1, Len(s) - 1), class)
    ELSE s

\* s.replace(/\s\s+/g, " "): every run of two or more white space characters
\* becomes one space; a single white space character is left as it is
RECURSIVE collapseSpaces(_)
collapseSpaces(s) ==
    IF Len(s) = 0 THEN <<>>
    ELSE IF Len(s) >= 2 /\ IsSpace(s[1]) /\ IsSpace(s[2])
    THEN LET rest == CHOOSE k \in 3..(Len(s) + 1) :
                        /\ \A j \in 1..(k - 1) : IsSpace(s[j])
                        /\ (k = Len(s) + 1 \/ ~IsSpace(s[k]))
         IN  <<" ">> \o collapseSpaces(SubSeq(s, rest, Len(s)))
    ELSE <<s[1]>> \o collapseSpaces(Tail(s))

\* s.replace(/\s+/g, " ")
RECURSIVE collapseAllSpaces(_)
collapseAllSpaces(s) ==
    IF Len(s) = 0 THEN <<>>
    ELSE IF IsSpace(s[1])
    THEN LET rest == CHOOSE k \in 2..(Len(s) + 1) :
                        /\ \A j \in 1..(k - 1) : IsSpace(s[j])
                        /\ (k = Len(s) + 1 \/ ~IsSpace(s[k]))
         IN  <<" ">> \o collapseAllSpaces(SubSeq(s, rest, Len(s)))
    ELSE <<s[1]>> \o collapseAllSpaces(Tail(s))

\* s.replace(/[X]/g, "") for a character class X
removeChars(s, class) == SelectSeq(s, LAMBDA c : c \notin class)

startsWith(s, prefix) ==
    Len(s) >= Len(prefix) /\ SubSeq(s, 1, Len(prefix)) = prefix

endsWith(s, suffix) ==
    Len(s) >= Len(suffix) /\ SubSeq(s, Len(s) - Len(suffix) + 1, Len(s)) = suffix

\* s.replace(/^prefix/, "") for a literal prefix
stripPrefix(s, prefix) ==
    IF startsWith(s, prefix) THEN SubSeq(s, Len(prefix) + 1, Len(s)) ELSE s

\* String.prototype.split(sep) for a one-character separator
RECURSIVE split(_, _)
split(s, sep) ==
    IF \A i \in 1..Len(s) : s[i] # sep THEN <<s>>
    ELSE LET k == CHOOSE i \in 1..Len(s) :
                     s[i] = sep /\ \A j \in 1..(i - 1) : s[j] # sep
         IN  <<SubSeq(s, 1, k - 1)>> \o split(SubSeq(s, k + 1, Len(s)), sep)

\* Array.prototype.join(" ")
RECURSIVE join(_)
join(tokens) ==
    IF Len(tokens) = 0 THEN <<>>
    ELSE IF Len(tokens) = 1 THEN tokens[1]
    ELSE tokens[1] \o <<" ">> \o join(Tail(tokens))

\* Array.prototype.slice(-count)
sliceLast(tokens, count) ==
    SubSeq(tokens, Max(1, Len(tokens) - count + 1), Len(tokens))

\* Array.prototype.splice(-count, count), for the array that is left
spliceLast(tokens, count) ==
    SubSeq(tokens, 1, Max(0, Len(tokens) - count))

----------------------------------------------------------------------------
(* didyoumean2, as the scraper calls it: caseSensitive false, trimSpaces    *)
(* true, thresholdType EDIT_DISTANCE, returnType FIRST_CLOSEST_MATCH       *)

\* whether the Levenshtein distance of a and b is at most k: equal first
\* characters cost nothing, and where they differ one edit (a substitution, a
\* deletion or an insertion) is spent
RECURSIVE withinEditDistance(_, _, _)
withinEditDistance(a, b, k) ==
    IF Len(a) - Len(b) > k \/ Len(b) - Len(a) > k THEN FALSE
    ELSE IF Len(a) = 0 \/ Len(b) = 0 THEN TRUE
    ELSE IF a[1] = b[1] THEN withinEditDistance(Tail(a), Tail(b), k)
    ELSE /\ k >= 1
         /\ \/ withinEditDistance(Tail(a), Tail(b), k - 1)
            \/ withinEditDistance(Tail(a), b, k - 1)
            \/ withinEditDistance(a, Tail(b), k - 1)

\* the least number of a set of numbers, or otherwise when the set is empty
leastOf(numbers, otherwise) ==
    IF numbers = {} THEN otherwise
    ELSE CHOOSE k \in numbers : \A l \in numbers : k <= l

\* the Levenshtein distance of a and b when it is at most threshold, and
\* threshold + 1 when it is more: every distance above the threshold fails
\* the threshold test alike
editDistance(a, b, threshold) ==
    leastOf({k \in 0..threshold : withinEditDistance(a, b, k)}, threshold + 1)

normalizeString(s) == toLowerCase(collapseAllSpaces(trim(s)))

\* the scan over the match list: the index and the score of the first item at
\* the smallest edit distance seen so far (index 0 before the first item)
RECURSIVE closestMatch(_, _, _, _, _, _)
\* one item of the scan, with its edit distance
closestMatchItem(normalizedInput, matchList, threshold, i, best, bestScore, distance) ==
    IF best = 0 \/ distance < bestScore
    THEN closestMatch(normalizedInput, matchList, threshold, i + 1, i, distance)
    ELSE closestMatch(normalizedInput, matchList, threshold, i + 1, best, bestScore)

closestMatch(normalizedInput, matchList, threshold, i, best, bestScore) ==
    IF i > Len(matchList) THEN [index |-> best, score |-> bestScore]
    ELSE closestMatchItem(normalizedInput, matchList, threshold, i, best, bestScore,
             editDistance(normalizedInput, normalizeString(matchList[i]), threshold))

\* the item the scan ended on in the form it was compared in
normalizedMatchWithinThreshold(matchList, threshold, closest) ==
    IF closest.index = 0 \/ closest.score > threshold
    THEN Null
    ELSE normalizeString(matchList[closest.index])

\* the item the scan ended on, when its distance is at most threshold
matchWithinThreshold(matchList, threshold, closest) ==
    IF closest.index = 0 \/ closest.score > threshold
    THEN Null
    ELSE matchList[closest.index]

\* the first item of matchList at the smallest edit distance from input, when
\* that distance is at most threshold; Null otherwise
didYouMean(input, matchList, threshold) ==
    matchWithinThreshold(matchList, threshold,
        closestMatch(normalizeString(input), matchList, threshold, 1, 0, 0))

----------------------------------------------------------------------------
(* The gazetteer: a JavaScript object is a sequence of [key, value] in      *)
(* insertion order, which is the order Object.keys returns                 *)

keys(object) == [i \in 1..Len(object) |-> object[i].key]
values(object) == [i \in 1..Len(object) |-> object[i].value]
hasKey(object, key) == \E i \in 1..Len(object) : object[i].key = key
\* object[key]
get(object, key) ==
    IF hasKey(object, key)
    THEN object[CHOOSE i \in 1..Len(object) : object[i].key = key].value
    ELSE Undefined
\* object[key] = value
put(object, key, value) ==
    IF hasKey(object, key)
    THEN [i \in 1..Len(object) |->
            IF object[i].key = key THEN [key |-> key, value |-> value] ELSE object[i]]
    ELSE Append(object, [key |-> key, value |-> value])

streetnames_txt ==
    << <<"B","A","Y"," ","R","O","A","D",",","S","T","R","E","A","K","Y"," ","B","A","Y">>,
       <<"W","e","l","l","s"," ","S","t","r","e","e","t",",","S","t","r","e","a","k","y"," ","B","a","y">>,
       <<"W","E","L","L","S"," ","S","T","R","E","E","T",",","W","I","R","R","U","L","L","A">>,
       <<"R","A","I","L","W","A","Y"," ","T","E","R","R","A","C","E",",","W","I","R","R","U","L","L","A">> >>

streetsuffixes_txt ==
    << <<"R","D",",","R","O","A","D">>,
       <<"S","T",",","S","T","R","E","E","T">>,
       <<"T","C","E",",","T","E","R","R","A","C","E">>,
       <<"A","V",",","A","V","E","N","U","E">> >>

suburbnames_txt ==
    << <<"S","T","R","E","A","K","Y"," ","B","A","Y",",","S","T","R","E","A","K","Y"," ","B","A","Y"," ","S","A"," ","5","6","8","0">>,
       <<"W","I","R","R","U","L","L","A",",","W","I","R","R","U","L","L","A"," ","S","A"," ","5","6","6","1">>,
       <<"H","A","S","L","A","M",","," ","H","A","S","L","A","M"," ","5","6","8","0">> >>

hundrednames_txt ==
    << <<"R","I","P","O","N",",","S","T","R","E","A","K","Y"," ","B","A","Y">>,
       <<"F","O","R","R","E","S","T",",","S","T","R","E","A","K","Y"," ","B","A","Y",";","H","A","S","L","A","M">>,
       <<"W","i","r","r","u","l","l","a",",","W","i","r","r","u","l","l","a",";","H","a","s","l","a","m">> >>

\* several suburbs may exist for the same street name
RECURSIVE loadStreetNames(_, _)
loadStreetNames(lines, object) ==
    IF Len(lines) = 0 THEN object
    ELSE LET streetNameTokens == split(toUpperCase(lines[1]), ",")
             streetName == trim(streetNameTokens[1])
             suburbName == trim(streetNameTokens[2])
             suburbs == IF hasKey(object, streetName) THEN get(object, streetName) ELSE <<>>
         IN  loadStreetNames(Tail(lines), put(object, streetName, Append(suburbs, suburbName)))

RECURSIVE loadStreetSuffixes(_, _)
loadStreetSuffixes(lines, object) ==
    IF Len(lines) = 0 THEN object
    ELSE LET streetSuffixTokens == split(toUpperCase(lines[1]), ",")
         IN  loadStreetSuffixes(Tail(lines),
                 put(object, trim(streetSuffixTokens[1]), trim(streetSuffixTokens[2])))

RECURSIVE loadSuburbNames(_, _)
loadSuburbNames(lines, object) ==
    IF Len(lines) = 0 THEN object
    ELSE LET suburbTokens == split(toUpperCase(lines[1]), ",")
         IN  loadSuburbNames(Tail(lines),
                 put(object, trim(suburbTokens[1]), trim(suburbTokens[2])))

RECURSIVE loadHundredNames(_, _)
loadHundredNames(lines, object) ==
    IF Len(lines) = 0 THEN object
    ELSE LET hundredNameTokens == split(toUpperCase(lines[1]), ",")
         IN  loadHundredNames(Tail(lines),
                 put(object, trim(hundredNameTokens[1]),
                     split(trim(hundredNameTokens[2]), ";")))

----------------------------------------------------------------------------
(* formatAddress (src/scraper.ts)                                          *)

\* the characters of the class [-â€“]; the three that are not ASCII are named
DashChars == {"-", "U+00E2", "U+20AC", "U+201C"}

StateCodes == { <<"A","C","T">>, <<"N","S","W">>, <<"N","T">>, <<"Q","L","D">>, <<"S","A">>, <<"T","A","S">>, <<"V","I","C">>, <<"W","A">> }

\* remove trailing dashes and multiple white space characters
cleanAddress(raw) == trim(collapseSpaces(stripTrailing(trim(raw), DashChars)))

\* addresses such as "0 0, 0" and "-"
isIgnoredAddress(cleaned) ==
    \/ removeChars(cleaned, {" ", "\t", ",", "0", "-"}) = <<>>
    \/ startsWith(cleaned, <<"N","o"," ","R","e","s","i","d","e","n","t","i","a","l"," ","A","d","d","r","e","s","s">>)

\* /^\d,\d\d\d/ and /^\d\d,\d\d\d/
matchesDigitCommaDigits(a, leading) ==
    /\ Len(a) >= leading + 4
    /\ \A i \in 1..leading : IsDigit(a[i])
    /\ a[leading + 1] = ","
    /\ \A i \in (leading + 2)..(leading + 4) : IsDigit(a[i])

\* remove the comma in house numbers larger than 1000
removeHouseNumberComma(a) ==
    IF matchesDigitCommaDigits(a, 1)
    THEN SubSeq(a, 1, 1) \o SubSeq(a, 3, Len(a))
    ELSE IF matchesDigitCommaDigits(a, 2)
    THEN SubSeq(a, 1, 2) \o SubSeq(a, 4, Len(a))
    ELSE a

\* /^\d\d\d\d$/
isPostCode(token) == Len(token) = 4 /\ \A i \in 1..4 : IsDigit(token[i])

\* tokens.pop(), kept as the post code or pushed back
popPostCode(tokens) ==
    LET token == tokens[Len(tokens)]
    IN  IF isPostCode(token)
        THEN [postCode |-> token, tokens |-> SubSeq(tokens, 1, Len(tokens) - 1)]
        ELSE [postCode |-> Undefined, tokens |-> tokens]

\* tokens.pop(), kept as the state or pushed back; the state is "SA" otherwise
popState(tokens) ==
    LET token == tokens[Len(tokens)]
    IN  IF toUpperCase(token) \in StateCodes
        THEN [state |-> toUpperCase(token), found |-> TRUE,
              tokens |-> SubSeq(tokens, 1, Len(tokens) - 1)]
        ELSE [state |-> <<"S","A">>, found |-> FALSE, tokens |-> tokens]

isHundredNamePrefixed(name) ==
    \/ startsWith(name, <<"H","D"," ","O","F"," ">>)
    \/ startsWith(name, <<"H","U","N","D","R","E","D"," ","O","F">>)
    \/ startsWith(name, <<"H","D"," ">>)
    \/ startsWith(name, <<"H","U","N","D","R","E","D"," ">>)

stripHundredNamePrefix(name) ==
    trim(stripPrefix(stripPrefix(stripPrefix(stripPrefix(name,
        <<"H","D"," ","O","F"," ">>), <<"H","U","N","D","R","E","D"," ","O","F"," ">>), <<"H","D"," ">>), <<"H","U","N","D","R","E","D"," ">>))

\* didYouMean for the last tokens, when they begin as a hundred name does
matchHundredName(tryHundredName) ==
    IF isHundredNamePrefixed(tryHundredName)
    THEN didYouMean(stripHundredNamePrefix(tryHundredName), keys(HundredNames), 1)
    ELSE Null

\* the loop over index = 4, 3, 2, 1 that looks for a hundred name
RECURSIVE findHundredName(_, _)
\* the body of the loop
tryHundredNameMatch(tokens, index, hundredNameMatch) ==
    IF hundredNameMatch = Null
    THEN findHundredName(tokens, index - 1)
    ELSE IF Len(get(HundredNames, hundredNameMatch)) = 1
    THEN [hasHundredName |-> TRUE,
          suburbName |-> get(SuburbNames, get(HundredNames, hundredNameMatch)[1]),
          tokens |-> spliceLast(tokens, index),
          index |-> index]
    ELSE [hasHundredName |-> TRUE, suburbName |-> Undefined,
          tokens |-> tokens, index |-> index]

findHundredName(tokens, index) ==
    IF index < 1
    THEN [hasHundredName |-> FALSE, suburbName |-> Undefined, tokens |-> tokens,
          index |-> 0]
    ELSE tryHundredNameMatch(tokens, index,
             matchHundredName(toUpperCase(join(sliceLast(tokens, index)))))

\* the loop over index = 4, 3, 2, 1 that looks for a suburb name
RECURSIVE findSuburbName(_, _)
\* the body of the loop
trySuburbNameMatch(tokens, index, suburbNameMatch) ==
    IF suburbNameMatch = Null
    THEN findSuburbName(tokens, index - 1)
    ELSE [suburbName |-> get(SuburbNames, suburbNameMatch),
          tokens |-> spliceLast(tokens, index), index |-> index]

findSuburbName(tokens, index) ==
    IF index < 1
    THEN [suburbName |-> Undefined, tokens |-> tokens, index |-> 0]
    ELSE trySuburbNameMatch(tokens, index,
             didYouMean(join(sliceLast(tokens, index)), keys(SuburbNames), 1))

\* a lookup that is case sensitive and knows no suffix that is already expanded
lookupStreetSuffixCaseSensitive(token) == get(StreetSuffixes, token)

\* StreetSuffixes[token], else the suffix that is already expanded
lookupStreetSuffix(token) ==
    IF hasKey(StreetSuffixes, toUpperCase(token))
    THEN get(StreetSuffixes, toUpperCase(token))
    ELSE IF \E i \in 1..Len(StreetSuffixes) :
                StreetSuffixes[i].value = toUpperCase(token)
    THEN toUpperCase(token)
    ELSE Undefined

\* expand any street suffix (for example, this converts "ST" to "STREET")
expandStreetSuffix(tokens) ==
    IF Len(tokens) = 0 THEN tokens
    ELSE LET token == trim(stripTrailing(trim(tokens[Len(tokens)]), {","}))
             streetSuffix == lookupStreetSuffix(token)
         IN  IF streetSuffix = Undefined
             THEN Append(SubSeq(tokens, 1, Len(tokens) - 1), token)
             ELSE Append(SubSeq(tokens, 1, Len(tokens) - 1), streetSuffix)

\* the loop over index = 5, 4, 3, 2, 1 that looks for a street name
RECURSIVE findStreetName(_, _, _)
\* the body of the loop
tryStreetNameMatch(tokens, suburbName, index, streetNameMatch) ==
    IF streetNameMatch = Null
    THEN findStreetName(tokens, suburbName, index - 1)
    ELSE [streetName |-> streetNameMatch,
          suburbName |->
              IF suburbName = Undefined /\ Len(get(StreetNames, streetNameMatch)) = 1
              THEN get(SuburbNames, get(StreetNames, streetNameMatch)[1])
              ELSE suburbName,
          tokens |-> spliceLast(tokens, index),
          index |-> index]

findStreetName(tokens, suburbName, index) ==
    IF index < 1
    THEN [streetName |-> Undefined, suburbName |-> suburbName, tokens |-> tokens,
          index |-> 0]
    ELSE tryStreetNameMatch(tokens, suburbName, index,
             didYouMean(trim(stripTrailing(trim(join(sliceLast(tokens, index))), {","})),
                        keys(StreetNames), 1))

\* suburbName.replace(/\s+\d\d\d\d$/, " " + postCode)
overridePostCode(suburbName, postCode) ==
    IF /\ Len(suburbName) >= 5
       /\ isPostCode(SubSeq(suburbName, Len(suburbName) - 3, Len(suburbName)))
       /\ IsSpace(suburbName[Len(suburbName) - 4])
    THEN LET start == CHOOSE i \in 1..(Len(suburbName) - 4) :
                          /\ \A j \in i..(Len(suburbName) - 4) : IsSpace(suburbName[j])
                          /\ (i = 1 \/ ~IsSpace(suburbName[i - 1]))
         IN  SubSeq(suburbName, 1, start - 1) \o <<" ">> \o postCode
    ELSE suburbName

\* where /\bSA\b/ matches in a, at or after the index from (which counts from 0)
matchesOfStateSA(a, from) ==
    {i \in (from + 1)..(Len(a) - 1) :
        /\ a[i] = "S" /\ a[i + 1] = "A"
        /\ (i = 1 \/ ~IsWordChar(a[i - 1]))
        /\ (i + 1 = Len(a) \/ ~IsWordChar(a[i + 2]))}

\* the test of a regular expression object that is kept from call to call: it
\* starts at the lastIndex the test before it left
hasStateSAFromLastIndex(a) == matchesOfStateSA(a, lastIndex) # {}

\* /\bSA\b/g.test(a): the literal makes a new object, which starts at index 0
hasStateSA(a) == matchesOfStateSA(a, 0) # {}

\* ensure that the address includes the state "SA"
ensureStateSA(a) ==
    IF a # <<>> /\ ~hasStateSA(a) THEN a \o <<" ","S","A">> ELSE a

\* reconstruct the address with a comma between the street address and the suburb
reconstructAddress(tokens, streetName, suburbName, fallbackAddress) ==
    IF suburbName = Undefined \/ trim(suburbName) = <<>>
    THEN fallbackAddress
    ELSE LET allTokens == IF streetName # Undefined /\ trim(streetName) # <<>>
                          THEN Append(tokens, streetName)
                          ELSE tokens
             streetAddress == trim(stripTrailing(trim(join(allTokens)), {","}))
         IN  streetAddress \o (IF streetAddress = <<>> THEN <<>> ELSE <<","," ">>)
                 \o suburbName

\* the lastIndex of the regular expression after its test of a: the end of the
\* first match, 0 when nothing matches
lastIndexOfStateSA(a) ==
    IF matchesOfStateSA(a, 0) = {} THEN 0
    ELSE 1 + CHOOSE i \in matchesOfStateSA(a, 0) : \A j \in matchesOfStateSA(a, 0) : i <= j

\* the end of formatAddress without the test for a missing suburb name: the
\* reconstruction then falls back on the fallback address
finishAddressWithFallback(tokens, streetName, suburbName, fallbackAddress) ==
    ensureStateSA(reconstructAddress(tokens, streetName, suburbName, fallbackAddress))

\* do not allow an address that does not have a suburb name
finishAddress(tokens, streetName, suburbName, fallbackAddress) ==
    IF suburbName = Undefined
    THEN <<>>
    ELSE ensureStateSA(reconstructAddress(tokens, streetName, suburbName,
                                          fallbackAddress))

\* formatAddress step by step, each step defined before the step that leads to
\* it.  A step receives the locals assigned so far.

\* lastIndex after a call that returned with the locals given: the test is
\* reached at the end of formatAddress, for an address that is not empty
lastIndexAfterTest(locals, before) ==
    IF locals.exit = "end"
    THEN lastIndexOfStateSA(reconstructAddress(locals.streetTokens, locals.streetName,
                                               locals.suburbName, locals.fallbackAddress))
    ELSE before

\* from the override of the post code to the return
formatAddressFinish(locals, streetTokens, suburbName) ==
    [exit |-> IF suburbName = Undefined THEN "no suburb" ELSE "end",
     result |-> finishAddress(streetTokens, locals.streetName, suburbName,
                              locals.fallbackAddress),
     suburbName |-> suburbName]
    @@ locals

\* after the loop that looks for a street name
formatAddressStreet(locals, street) ==
    formatAddressFinish(
        [streetName |-> street.streetName, streetIndex |-> street.index,
         streetTokens |-> street.tokens] @@ locals,
        street.tokens,
        IF locals.postCode # Undefined /\ street.suburbName # Undefined
        THEN overridePostCode(street.suburbName, locals.postCode)
        ELSE street.suburbName)

\* after the expansion of the street suffix
formatAddressSuffix(locals, suburbName, expanded) ==
    formatAddressStreet([expandedTokens |-> expanded] @@ locals,
                        findStreetName(expanded, suburbName, 5))

\* after the loop that looks for a suburb name, which is skipped when a hundred
\* name was found
formatAddressSuburb(locals, suburb) ==
    formatAddressSuffix([suburbIndex |-> suburb.index, suburbTokens |-> suburb.tokens]
                            @@ locals,
                        suburb.suburbName, expandStreetSuffix(suburb.tokens))

\* a search for a suburb name that is skipped only when the hundred name gave
\* a suburb name
formatAddressHundredThenSuburb(locals, hundred) ==
    formatAddressSuburb(
        [hasHundredName |-> hundred.hasHundredName, hundredIndex |-> hundred.index,
         hundredSuburbName |-> hundred.suburbName] @@ locals,
        IF hundred.suburbName # Undefined
        THEN [suburbName |-> hundred.suburbName, tokens |-> hundred.tokens, index |-> 0]
        ELSE findSuburbName(hundred.tokens, 4))

\* after the loop that looks for a hundred name
formatAddressHundred(locals, hundred) ==
    formatAddressSuburb(
        [hasHundredName |-> hundred.hasHundredName, hundredIndex |-> hundred.index,
         hundredSuburbName |-> hundred.suburbName] @@ locals,
        IF hundred.hasHundredName
        THEN [suburbName |-> hundred.suburbName, tokens |-> hundred.tokens, index |-> 0]
        ELSE findSuburbName(hundred.tokens, 4))

\* after the state is popped: the fallback address, and on to the hundred name
formatAddressTokens(cleaned, a, postCode, popped) ==
    formatAddressHundred(
        [cleaned |-> cleaned, address |-> a, postCode |-> postCode,
         state |-> popped.state, stateFound |-> popped.found, tokens |-> popped.tokens,
         fallbackAddress |->
             IF postCode = Undefined THEN a
             ELSE trim(join(popped.tokens \o <<popped.state, postCode>>))],
        findHundredName(popped.tokens, 4))

\* after the post code is popped: return the address when no token is left
formatAddressPostCode(cleaned, a, post) ==
    IF Len(post.tokens) = 0
    THEN [exit |-> "no tokens", cleaned |-> cleaned, address |-> a,
          postCode |-> post.postCode, result |-> a]
    ELSE formatAddressTokens(cleaned, a, post.postCode, popState(post.tokens))

\* after the comma of the house number is removed
formatAddressSplit(cleaned, a) == formatAddressPostCode(cleaned, a, popPostCode(split(a, " ")))

\* after the address is cleaned
formatAddressCleaned(cleaned) ==
    IF isIgnoredAddress(cleaned)
    THEN [exit |-> "ignored", cleaned |-> cleaned, address |-> cleaned, result |-> <<>>]
    ELSE formatAddressSplit(cleaned, removeHouseNumberComma(cleaned))

\* formatAddress, with the locals it holds when it returns
formatAddressLocals(raw) == formatAddressCleaned(cleanAddress(raw))

\* formatAddress: the application number is only written to the log
formatAddress(applicationNumber, raw) == formatAddressLocals(raw).result

----------------------------------------------------------------------------
(* addressComparer (the revision of the scraper that parses the house      *)
(* number, street and suburb fields: src/unnamed/part_001)                 *)

\* Number.MAX_VALUE, the threshold of an unrecognised street name
Number_MAX_VALUE == 1000000

\* what addressComparer returns: a number, or undefined where it falls off its end
Returned(value) == [exit |-> "return", value |-> value]
ReturnedUndefined == [exit |-> "undefined"]

\* a comparer that prefers fewer spelling errors before it considers the
\* presence of a house number
addressComparerThresholdFirst(a, b) ==
    IF a.threshold > b.threshold
    THEN Returned(1)
    ELSE IF a.threshold < b.threshold
    THEN Returned(-1)
    ELSE IF a.houseNumber = <<>> /\ b.houseNumber # <<>>
    THEN Returned(1)
    ELSE IF a.houseNumber # <<>> /\ b.houseNumber = <<>>
    THEN Returned(-1)
    ELSE IF a.candidate.hasInvalidHundredName /\ ~b.candidate.hasInvalidHundredName
    THEN Returned(1)
    ELSE IF ~a.candidate.hasInvalidHundredName /\ b.candidate.hasInvalidHundredName
    THEN Returned(-1)
    ELSE ReturnedUndefined

\* a comparer that stops at the house numbers and does not look at the candidates
addressComparerWithoutCandidates(a, b) ==
    IF a.threshold <= 2 /\ b.threshold <= 2 /\ a.houseNumber = <<>> /\ b.houseNumber # <<>>
    THEN Returned(1)
    ELSE IF a.threshold <= 2 /\ b.threshold <= 2 /\ a.houseNumber # <<>> /\ b.houseNumber = <<>>
    THEN Returned(-1)
    ELSE IF a.threshold > b.threshold
    THEN Returned(1)
    ELSE IF a.threshold < b.threshold
    THEN Returned(-1)
    ELSE IF a.houseNumber = <<>> /\ b.houseNumber # <<>>
    THEN Returned(1)
    ELSE IF a.houseNumber # <<>> /\ b.houseNumber = <<>>
    THEN Returned(-1)
    ELSE ReturnedUndefined

\* a comparer that prefers a house number whenever the first address has at
\* most two spelling errors
addressComparerOneSided(a, b) ==
    IF a.threshold <= 2 /\ a.houseNumber = <<>> /\ b.houseNumber # <<>>
    THEN Returned(1)
    ELSE IF a.threshold <= 2 /\ a.houseNumber # <<>> /\ b.houseNumber = <<>>
    THEN Returned(-1)
    ELSE IF a.threshold > b.threshold
    THEN Returned(1)
    ELSE IF a.threshold < b.threshold
    THEN Returned(-1)
    ELSE IF a.houseNumber = <<>> /\ b.houseNumber # <<>>
    THEN Returned(1)
    ELSE IF a.houseNumber # <<>> /\ b.houseNumber = <<>>
    THEN Returned(-1)
    ELSE IF a.candidate.hasInvalidHundredName /\ ~b.candidate.hasInvalidHundredName
    THEN Returned(1)
    ELSE IF ~a.candidate.hasInvalidHundredName /\ b.candidate.hasInvalidHundredName
    THEN Returned(-1)
    ELSE ReturnedUndefined

\* returns a number indicating which address is "larger" (a "worse" address)
addressComparer(a, b) ==
    IF a.threshold <= 2 /\ b.threshold <= 2 /\ a.houseNumber = <<>> /\ b.houseNumber # <<>>
    THEN Returned(1)
    ELSE IF a.threshold <= 2 /\ b.threshold <= 2 /\ a.houseNumber # <<>> /\ b.houseNumber = <<>>
    THEN Returned(-1)
    ELSE IF a.threshold > b.threshold
    THEN Returned(1)
    ELSE IF a.threshold < b.threshold
    THEN Returned(-1)
    ELSE IF a.houseNumber = <<>> /\ b.houseNumber # <<>>
    THEN Returned(1)
    ELSE IF a.houseNumber # <<>> /\ b.houseNumber = <<>>
    THEN Returned(-1)
    ELSE IF a.candidate.hasInvalidHundredName /\ ~b.candidate.hasInvalidHundredName
    THEN Returned(1)
    ELSE IF ~a.candidate.hasInvalidHundredName /\ b.candidate.hasInvalidHundredName
    THEN Returned(-1)
    ELSE ReturnedUndefined

\* the number Array.prototype.sort makes of what the comparer returned:
\* undefined counts as 0
sortOrder(returned) == IF returned.exit = "return" THEN returned.value ELSE 0

\* addresses.sort(addressComparer) for an array of two addresses.  An insertion
\* sort asks for comparer(first, second) and swaps when it is positive; a
\* binary insertion sort asks for comparer(second, first) and swaps when it
\* is negative.  The engine decides which.
sortTwo(first, second, engine) ==
    IF engine = "insertion"
    THEN IF sortOrder(addressComparer(first, second)) > 0
         THEN <<second, first>> ELSE <<first, second>>
    ELSE IF sortOrder(addressComparer(second, first)) < 0
         THEN <<second, first>> ELSE <<first, second>>

SortEngines == {"insertion", "binary insertion"}

\* the addresses parseAddress pushes: the house number, the street name, the
\* suburb name, the threshold the street name matched at, and the candidate
\* split of the street field it belongs to
AddressCandidates ==
    [houseNumber : {<<>>, <<"3","5">>},
     streetName : {<<"R","A","I","L","W","A","Y"," ","T","E","R","R","A","C","E">>},
     suburbName : {<<"W","I","R","R","U","L","L","A">>},
     threshold : {0, 1, 2, Number_MAX_VALUE},
     candidate : [index : {0, 1}, hasInvalidHundredName : BOOLEAN]]

----------------------------------------------------------------------------
(* parseAddress (src/unnamed/part_001): the house number, street and       *)
(* suburb fields may hold several addresses, delimited by "\u00fc", which   *)
(* is written "|" here.  That revision keeps the hundred names as a list,  *)
(* here the keys of HundredNames                                           *)

Delimiter == "|"

\* suburbName.replace(/^HD /, "").replace(/ HD$/, "").replace(/ SA$/, "").trim()
stripHundredAndState(suburbName) ==
    LET withoutPrefix == stripPrefix(suburbName, <<"H","D"," ">>)
        withoutSuffix == IF endsWith(withoutPrefix, <<" ","H","D">>)
                         THEN SubSeq(withoutPrefix, 1, Len(withoutPrefix) - 3)
                         ELSE withoutPrefix
    IN  trim(IF endsWith(withoutSuffix, <<" ","S","A">>)
             THEN SubSeq(withoutSuffix, 1, Len(withoutSuffix) - 3)
             ELSE withoutSuffix)

\* SuburbNames[suburbName] || suburbName
suburbNameOrItself(suburbName) ==
    IF hasKey(SuburbNames, suburbName) /\ get(SuburbNames, suburbName) # <<>>
    THEN get(SuburbNames, suburbName)
    ELSE suburbName

\* constructs the full address string based on the specified address components
formatAddressOfComponents(houseNumber, streetName, suburbName) ==
    LET suburb == suburbNameOrItself(stripHundredAndState(suburbName))
        separator == IF (houseNumber # <<>> \/ streetName # <<>>) /\ suburb # <<>>
                     THEN <<","," ">> ELSE <<>>
    IN  toUpperCase(collapseSpaces(trim(
            houseNumber \o <<" ">> \o streetName \o separator \o suburb)))

\* while (streetNameTokens.length < count) streetNameTokens.push("")
padTokens(tokens, count) ==
    IF Len(tokens) >= count THEN tokens
    ELSE tokens \o [i \in 1..(count - Len(tokens)) |-> <<>>]

\* the middle token, with a space added when it has none
withSpace(token) == IF " " \in Range(token) THEN token ELSE token \o <<" ">>

\* candidates that split the middle token at its first space only
splitCandidatesAtFirstSpace(streetNameTokens, middleTokenIndex) ==
    LET ambiguousTokens == split(withSpace(streetNameTokens[middleTokenIndex + 1]), " ")
    IN  <<[group1 |-> SubSeq(streetNameTokens, 1, middleTokenIndex)
                          \o <<ambiguousTokens[1]>>,
           group2 |-> <<join(Tail(ambiguousTokens))>>
                          \o SubSeq(streetNameTokens, middleTokenIndex + 2,
                                    Len(streetNameTokens))]>>

\* the candidates: one for each space of the middle token of the street name.
\* middleTokenIndex counts from 0.  The flag of a candidate is set later.
splitCandidates(streetNameTokens, middleTokenIndex) ==
    LET ambiguousTokens == split(withSpace(streetNameTokens[middleTokenIndex + 1]), " ")
    IN  [index \in 1..(Len(ambiguousTokens) - 1) |->
            [group1 |-> SubSeq(streetNameTokens, 1, middleTokenIndex)
                            \o <<join(SubSeq(ambiguousTokens, 1, index))>>,
             group2 |-> <<join(SubSeq(ambiguousTokens, index + 1, Len(ambiguousTokens)))>>
                            \o SubSeq(streetNameTokens, middleTokenIndex + 2,
                                      Len(streetNameTokens))]]

\* expand street suffixes such as "Tce" to "TERRACE"
expandStreetSuffixes(piece) ==
    LET tokens == split(piece, " ")
    IN  join([i \in 1..Len(tokens) |->
                 IF hasKey(StreetSuffixes, toUpperCase(tokens[i]))
                 THEN get(StreetSuffixes, toUpperCase(tokens[i]))
                 ELSE tokens[i]])

\* the full street name of an index of a candidate (the index counts from 1)
fullStreetName(candidate, index) ==
    collapseSpaces(trim(candidate.group1[index] \o <<" ">>
                            \o expandStreetSuffixes(candidate.group2[index])))

isHundredStreetName(streetName) == endsWith(streetName, <<" ","H","D">>)

\* candidate.hasInvalidHundredName once the loops have ended: some street name
\* of the candidate ends in " HD" and is not a hundred name
hasInvalidHundredName(candidate, count) ==
    \E index \in 1..count :
        /\ fullStreetName(candidate, index) # <<>>
        /\ isHundredStreetName(fullStreetName(candidate, index))
        /\ didYouMean(SubSeq(fullStreetName(candidate, index), 1,
                             Len(fullStreetName(candidate, index)) - 3),
                      keys(HundredNames), 0) = Null

\* a matcher that tries the widest threshold first
matchStreetNameWidestFirst(streetName) ==
    IF didYouMean(streetName, keys(StreetNames), 2) # Null
    THEN [streetName |-> didYouMean(streetName, keys(StreetNames), 2), threshold |-> 2]
    ELSE IF didYouMean(streetName, keys(StreetNames), 1) # Null
    THEN [streetName |-> didYouMean(streetName, keys(StreetNames), 1), threshold |-> 1]
    ELSE IF didYouMean(streetName, keys(StreetNames), 0) # Null
    THEN [streetName |-> streetName, threshold |-> 0]
    ELSE [streetName |-> streetName, threshold |-> Number_MAX_VALUE]

\* choose the best matching street name (from the known street names)
matchStreetName(streetName) ==
    IF didYouMean(streetName, keys(StreetNames), 0) # Null
    THEN [streetName |-> streetName, threshold |-> 0]
    ELSE IF didYouMean(streetName, keys(StreetNames), 1) # Null
    THEN [streetName |-> didYouMean(streetName, keys(StreetNames), 1), threshold |-> 1]
    ELSE IF didYouMean(streetName, keys(StreetNames), 2) # Null
    THEN [streetName |-> didYouMean(streetName, keys(StreetNames), 2), threshold |-> 2]
    ELSE [streetName |-> streetName, threshold |-> Number_MAX_VALUE]

\* suburbNameTokens[index], or "" when it is undefined
associatedSuburbName(suburbNameTokens, index) ==
    IF index <= Len(suburbNameTokens) THEN suburbNameTokens[index] ELSE <<>>

\* the address pushed for an index of a candidate.  constructed is the full
\* street name, candidateIndex counts from 0.
pushedAddress(houseNumberTokens, suburbNameTokens, candidates, candidateIndex, index, constructed) ==
    [houseNumber |-> houseNumberTokens[index],
     streetName |-> matchStreetName(constructed).streetName,
     suburbName |-> associatedSuburbName(suburbNameTokens, index),
     threshold |-> matchStreetName(constructed).threshold,
     candidate |-> [index |-> candidateIndex,
                    hasInvalidHundredName |->
                        hasInvalidHundredName(candidates[candidateIndex + 1],
                                              Len(houseNumberTokens))]]

\* the addresses of the candidates from candidateIndex on, from the index given
\* on: blank street names and hundred names are ignored
RECURSIVE pushedAddresses(_, _, _, _, _)
pushedAddresses(houseNumberTokens, suburbNameTokens, candidates, candidateIndex, index) ==
    IF candidateIndex >= Len(candidates) THEN <<>>
    ELSE IF index > Len(houseNumberTokens)
    THEN pushedAddresses(houseNumberTokens, suburbNameTokens, candidates,
                         candidateIndex + 1, 1)
    ELSE (IF \/ fullStreetName(candidates[candidateIndex + 1], index) = <<>>
             \/ isHundredStreetName(fullStreetName(candidates[candidateIndex + 1], index))
          THEN <<>>
          ELSE <<pushedAddress(houseNumberTokens, suburbNameTokens, candidates,
                               candidateIndex, index,
                               fullStreetName(candidates[candidateIndex + 1], index))>>)
         \o pushedAddresses(houseNumberTokens, suburbNameTokens, candidates,
                            candidateIndex, index + 1)

\* where a binary insertion sort puts the pivot among the sorted addresses
\* before it: left and right count from 0
RECURSIVE binaryInsertionPoint(_, _, _, _)
binaryInsertionPoint(front, pivot, left, right) ==
    IF left >= right THEN left
    ELSE IF sortOrder(addressComparer(pivot, front[left + ((right - left) \div 2) + 1])) < 0
    THEN binaryInsertionPoint(front, pivot, left, left + ((right - left) \div 2))
    ELSE binaryInsertionPoint(front, pivot, left + ((right - left) \div 2) + 1, right)

\* where an insertion sort puts the last address among the sorted addresses
\* before it: behind the last of them that does not compare as larger
insertionPoint(front, last) ==
    LET before == {i \in 1..Len(front) :
                      /\ sortOrder(addressComparer(front[i], last)) <= 0
                      /\ \A j \in (i + 1)..Len(front) :
                             sortOrder(addressComparer(front[j], last)) > 0}
    IN  IF before = {} THEN 0 ELSE CHOOSE i \in before : TRUE

\* addresses.sort(addressComparer), as the engine sorts a short array
RECURSIVE sortAddresses(_, _)
sortAddresses(addresses, engine) ==
    IF Len(addresses) <= 1 THEN addresses
    ELSE LET front == sortAddresses(SubSeq(addresses, 1, Len(addresses) - 1), engine)
             last == addresses[Len(addresses)]
             position == IF engine = "insertion"
                         THEN insertionPoint(front, last)
                         ELSE binaryInsertionPoint(front, last, 0, Len(front))
         IN  SubSeq(front, 1, position) \o <<last>>
                 \o SubSeq(front, position + 1, Len(front))

\* the end of parseAddress: undefined without addresses, and the best address
\* after the sort otherwise
parseAddressBest(houseNumberTokens, candidates, addresses, engine) ==
    IF addresses = <<>>
    THEN [exit |-> "undefined", houseNumberTokens |-> houseNumberTokens,
          candidates |-> candidates, addresses |-> addresses]
    ELSE [exit |-> "return", houseNumberTokens |-> houseNumberTokens,
          candidates |-> candidates, addresses |-> addresses,
          best |-> sortAddresses(addresses, engine)[1],
          result |-> formatAddressOfComponents(
                         sortAddresses(addresses, engine)[1].houseNumber,
                         sortAddresses(addresses, engine)[1].streetName,
                         sortAddresses(addresses, engine)[1].suburbName)]

\* parseAddress once the fields are split
parseAddressTokens(houseNumberTokens, streetNameTokens, suburbNameTokens, engine) ==
    parseAddressBest(houseNumberTokens,
        splitCandidates(streetNameTokens, Len(houseNumberTokens) - 1),
        pushedAddresses(houseNumberTokens, suburbNameTokens,
            splitCandidates(streetNameTokens, Len(houseNumberTokens) - 1), 0, 1),
        engine)

\* parses the address from the house number, street name and suburb name
parseAddress(houseNumber, streetName, suburbName, engine) ==
    IF Delimiter \notin Range(houseNumber)
    THEN [exit |-> "single",
          result |-> formatAddressOfComponents(houseNumber, streetName, suburbName)]
    ELSE parseAddressTokens(split(houseNumber, Delimiter),
             padTokens(split(streetName, Delimiter),
                       2 * Len(split(houseNumber, Delimiter)) - 1),
             split(suburbName, Delimiter), engine)

\* the fields parseAddress is applied to
HouseNumberFields == {<<"3","5">>,
      <<"|","3","5">>,
      <<"7","9","|","4">>,
      <<"1","|","2","|","3">>}
StreetNameFields == {<<"R","A","I","L","W","A","Y","|","W","E","L","L","S"," ","T","C","E","|","S","T","R","E","E","T">>,
      <<"R","A","I","L","W","A","Y","|","B","A","Y"," ","T","C","E"," ","S","O","U","T","H","|","R","D">>,
      <<"R","A","I","L","W","E","Y","|","W","E","L","S"," ","T","C","E","|","S","T">>,
      <<"R","A","I","L","W","E","Y","|","W","E","L","L","S"," ","T","E","R","A","C","E","|","S","T">>,
      <<"R","A","I","L","W","A","Y","|","R","I","P","O","N"," ","T","C","E","|","H","D">>,
      <<"R","A","I","L","W","A","Y","|","V","I","E","W"," ","T","C","E","|","H","D">>,
      <<"R","A","I","L","W","A","Y","|","W","E","L","L","S">>,
      <<"B","A","Y","|","O","L","D"," ","L","A","N","E","|","R","D","|","S","T","|","A","V">>,
      <<"N","O","R","T","H","|","Q","U","A","R","R","Y"," ","T","C","E","|","S","T">>,
      <<>>}
SuburbNameFields == {<<"W","I","R","R","U","L","L","A","|","W","I","R","R","U","L","L","A">>,
      <<"W","I","R","R","U","L","L","A">>,
      <<>>,
      <<"|","H","A","S","L","A","M">>}

----------------------------------------------------------------------------
(* Rectangles and elements (src/scraper.ts)                                *)

\* what Array.prototype.find returns when no element passes the test
UndefinedElement == [element |-> "undefined"]

\* constructs a rectangle based on the intersection of the two rectangles
intersect(rectangle1, rectangle2) ==
    LET x1 == Max(rectangle1.x, rectangle2.x)
        y1 == Max(rectangle1.y, rectangle2.y)
        x2 == Min(rectangle1.x + rectangle1.width, rectangle2.x + rectangle2.width)
        y2 == Min(rectangle1.y + rectangle1.height, rectangle2.y + rectangle2.height)
    IN  IF x2 >= x1 /\ y2 >= y1
        THEN [x |-> x1, y |-> y1, width |-> x2 - x1, height |-> y2 - y1]
        ELSE [x |-> 0, y |-> 0, width |-> 0, height |-> 0]

\* calculates the area of a rectangle
getArea(rectangle) == rectangle.width * rectangle.height

\* the fraction of an element that lies within a rectangle, as a percentage.
\* The quotient is kept as a numerator and a denominator, so that nothing is
\* rounded.
getPercentageOfElementInRectangle(element, rectangle) ==
    LET elementArea == getArea(element)
        intersectionArea == getArea(intersect(rectangle, element))
    IN  IF elementArea = 0
        THEN [numerator |-> 0, denominator |-> 1]
        ELSE [numerator |-> intersectionArea * 100, denominator |-> elementArea]

\* percentage >= number
isAtLeast(percentage, number) ==
    IF percentage.denominator > 0
    THEN percentage.numerator >= number * percentage.denominator
    ELSE percentage.numerator <= number * percentage.denominator

\* percentage > number
isMoreThan(percentage, number) ==
    IF percentage.denominator > 0
    THEN percentage.numerator > number * percentage.denominator
    ELSE percentage.numerator < number * percentage.denominator

\* (a, b) => (a.y > b.y) ? 1 : ((a.y < b.y) ? -1 : ((a.x > b.x) ? 1 : ((a.x < b.x) ? -1 : 0)))
elementComparer(a, b) ==
    IF a.y > b.y THEN 1
    ELSE IF a.y < b.y THEN -1
    ELSE IF a.x > b.x THEN 1
    ELSE IF a.x < b.x THEN -1
    ELSE 0

\* elements.sort(elementComparer): elements that compare equal keep their order
RECURSIVE sortElements(_)
sortElements(elements) ==
    IF Len(elements) <= 1 THEN elements
    ELSE LET front == sortElements(SubSeq(elements, 1, Len(elements) - 1))
             last == elements[Len(elements)]
             before == {i \in 1..Len(front) : elementComparer(front[i], last) <= 0}
             position == IF before = {} THEN 0
                         ELSE CHOOSE i \in before : \A j \in before : i >= j
         IN  SubSeq(front, 1, position) \o <<last>>
                 \o SubSeq(front, position + 1, Len(front))

\* element.text.replace(/\s/g, ""): the text in the case it is written in
headingTextCaseSensitive(element) == removeChars(element.text, WhiteSpace)

\* element.text.toLowerCase().replace(/\s/g, "")
headingText(element) == removeChars(toLowerCase(element.text), WhiteSpace)

\* elements.find(element => headingText(element) === heading)
findHeading(elements, heading) ==
    LET found == {i \in 1..Len(elements) : headingText(elements[i]) = heading}
    IN  IF found = {} THEN UndefinedElement
        ELSE elements[CHOOSE i \in found : \A j \in found : i <= j]

\* elements.find(element => headingText(element).startsWith(heading))
findHeadingStartingWith(elements, heading) ==
    LET found == {i \in 1..Len(elements) : startsWith(headingText(elements[i]), heading)}
    IN  IF found = {} THEN UndefinedElement
        ELSE elements[CHOOSE i \in found : \A j \in found : i <= j]

\* elements.find(element => getPercentageOfElementInRectangle(element, bounds) > 10)
findElementInBounds(elements, bounds) ==
    LET found == {i \in 1..Len(elements) :
                     isMoreThan(getPercentageOfElementInRectangle(elements[i], bounds), 10)}
    IN  IF found = {} THEN UndefinedElement
        ELSE elements[CHOOSE i \in found : \A j \in found : i <= j]

\* elements.filter(element => getPercentageOfElementInRectangle(element, bounds) > 10)
\*     .map(element => element.text).join(" ").trim().replace(/\s\s+/g, " ")
textInBounds(elements, bounds) ==
    LET inside == SelectSeq(elements, LAMBDA element :
                      isMoreThan(getPercentageOfElementInRectangle(element, bounds), 10))
    IN  collapseSpaces(trim(join([i \in 1..Len(inside) |-> inside[i].text])))

----------------------------------------------------------------------------
(* Dates: moment(text, "D/M/YYYY", true) and format("YYYY-MM-DD")          *)

DigitChars == <<"0","1","2","3","4","5","6","7","8","9">>

digitValue(c) == (CHOOSE n \in 1..Len(DigitChars) : DigitChars[n] = c) - 1

RECURSIVE toNumber(_)
toNumber(digits) ==
    IF Len(digits) = 0 THEN 0
    ELSE toNumber(SubSeq(digits, 1, Len(digits) - 1)) * 10 + digitValue(digits[Len(digits)])

isDigits(text) == \A i \in 1..Len(text) : IsDigit(text[i])

isLeapYear(year) == (year % 4 = 0 /\ year % 100 # 0) \/ year % 400 = 0

daysInMonth(year, month) ==
    IF month = 2 THEN (IF isLeapYear(year) THEN 29 ELSE 28)
    ELSE IF month \in {4, 6, 9, 11} THEN 30
    ELSE 31

\* moment.invalid()
InvalidDate == [isValid |-> FALSE]

\* moment(text, "D/M/YYYY"): a parse that is not strict takes any three numbers
parseDateNotStrict(text) ==
    LET parts == split(text, "/")
    IN  IF /\ Len(parts) = 3
           /\ \A i \in 1..3 : Len(parts[i]) > 0 /\ isDigits(parts[i])
        THEN [isValid |-> TRUE, year |-> toNumber(parts[3]),
              month |-> toNumber(parts[2]), day |-> toNumber(parts[1])]
        ELSE InvalidDate

\* moment(text, "D/M/YYYY", true): one or two digits, "/", one or two digits,
\* "/", four digits, and a day that exists
parseDate(text) ==
    LET parts == split(text, "/")
    IN  IF /\ Len(parts) = 3
           /\ Len(parts[1]) \in {1, 2} /\ isDigits(parts[1])
           /\ Len(parts[2]) \in {1, 2} /\ isDigits(parts[2])
           /\ Len(parts[3]) = 4 /\ isDigits(parts[3])
           /\ toNumber(parts[2]) \in 1..12
           /\ toNumber(parts[1]) \in 1..daysInMonth(toNumber(parts[3]), toNumber(parts[2]))
        THEN [isValid |-> TRUE, year |-> toNumber(parts[3]),
              month |-> toNumber(parts[2]), day |-> toNumber(parts[1])]
        ELSE InvalidDate

twoDigits(n) == <<DigitChars[((n \div 10) % 10) + 1], DigitChars[(n % 10) + 1]>>

\* date.format("YYYY-MM-DD")
formatDate(date) ==
    twoDigits(date.year \div 100) \o twoDigits(date.year % 100) \o <<"-">>
        \o twoDigits(date.month) \o <<"-">> \o twoDigits(date.day)

\* the day the scraper runs on: moment()
Today == [isValid |-> TRUE, year |-> 2018, month |-> 3, day |-> 9]

----------------------------------------------------------------------------
(* The page parsers (src/scraper.ts)                                       *)

CommentUrl == "mailto:dcstreaky@streakybay.sa.gov.au"

\* a page parser returns undefined, having logged why
Ignored(log) == [exit |-> "undefined", log |-> log]

\* the bounding rectangle to the right of a heading, as far as the next heading
\* when there is one and three heading widths otherwise
boundsRightOf(headingElement, nextHeadingElement, height) ==
    [x |-> headingElement.x + headingElement.width,
     y |-> headingElement.y,
     width |-> IF nextHeadingElement = UndefinedElement
               THEN headingElement.width * 3
               ELSE nextHeadingElement.x - headingElement.x - headingElement.width,
     height |-> height]

\* receivedDate.isValid() ? receivedDate.format("YYYY-MM-DD") : ""
receivedDateText(applicationDateHeadingElement, elements, receivedDateBounds) ==
    IF applicationDateHeadingElement = UndefinedElement THEN <<>>
    ELSE LET receivedDateElement == findElementInBounds(elements, receivedDateBounds)
             receivedDate == IF receivedDateElement = UndefinedElement
                             THEN InvalidDate
                             ELSE parseDate(trim(receivedDateElement.text))
         IN  IF receivedDate.isValid THEN formatDate(receivedDate) ELSE <<>>

\* the end of a parser that has no placeholder for the description
applicationWithoutPlaceholder(applicationNumber, formattedAddress, description, informationUrl, receivedDate) ==
    IF formattedAddress = <<>>
    THEN Ignored("could not find an address")
    ELSE
    Returned([applicationNumber |-> applicationNumber,
              address |-> formattedAddress,
              description |-> description,
              informationUrl |-> informationUrl,
              commentUrl |-> CommentUrl,
              scrapeDate |-> formatDate(Today),
              receivedDate |-> receivedDate])

\* the end of both parsers: undefined without an address, and the application
\* otherwise
application(applicationNumber, formattedAddress, description, informationUrl, receivedDate) ==
    IF formattedAddress = <<>>
    THEN Ignored("could not find an address")
    ELSE
    Returned([applicationNumber |-> applicationNumber,
              address |-> formattedAddress,
              description |-> IF description = <<>>
                              THEN <<"N","o"," ","d","e","s","c","r","i","p","t","i","o","n"," ","p","r","o","v","i","d","e","d">>
                              ELSE description,
              informationUrl |-> informationUrl,
              commentUrl |-> CommentUrl,
              scrapeDate |-> formatDate(Today),
              receivedDate |-> receivedDate])

\* parses the details from the elements of a single page (a single application)
parseOldFormatApplicationElements(elements, informationUrl) ==
    LET applicationHeadingElement == findHeading(elements, <<"a","p","p","l","i","c","a","t","i","o","n","n","u","m","b","e","r",":">>)
        applicationFeesHeadingElement == findHeading(elements, <<"a","p","p","l","i","c","a","t","i","o","n","f","e","e","s",":">>)
        applicationDateHeadingElement == findHeading(elements, <<"a","p","p","l","i","c","a","t","i","o","n","d","a","t","e",":">>)
        developmentCompletedHeadingElement == findHeading(elements, <<"d","e","v","e","l","o","p","m","e","n","t","c","o","m","p","l","e","t","e","d",":">>)
        propertyAddressHeadingElement == findHeading(elements, <<"p","r","o","p","e","r","t","y","a","d","d","r","e","s","s",":">>)
        developmentDescriptionHeadingElement == findHeading(elements, <<"d","e","v","e","l","o","p","m","e","n","t","d","e","s","c","r","i","p","t","i","o","n",":">>)
        relevantAuthorityHeadingElement == findHeading(elements, <<"r","e","l","e","v","a","n","t","a","u","t","h","o","r","i","t","y",":">>)
    IN  IF applicationHeadingElement = UndefinedElement
        THEN Ignored("the Application Number heading is missing")
        ELSE
    LET applicationNumberBounds ==
            boundsRightOf(applicationHeadingElement, applicationFeesHeadingElement,
                          applicationHeadingElement.height)
        applicationNumberElement == findElementInBounds(elements, applicationNumberBounds)
        applicationNumber == IF applicationNumberElement = UndefinedElement THEN <<>>
                             ELSE removeChars(applicationNumberElement.text, WhiteSpace)
    IN  IF applicationNumber = <<>>
        THEN Ignored("the development application number text is missing")
        ELSE
    LET receivedDate ==
            receivedDateText(applicationDateHeadingElement, elements,
                boundsRightOf(applicationDateHeadingElement,
                              developmentCompletedHeadingElement,
                              applicationDateHeadingElement.height))
    IN  IF propertyAddressHeadingElement = UndefinedElement
        THEN Ignored("the Property Address heading is missing")
        ELSE
    LET addressBounds ==
            boundsRightOf(propertyAddressHeadingElement, applicationFeesHeadingElement,
                          propertyAddressHeadingElement.height)
        description ==
            IF developmentDescriptionHeadingElement = UndefinedElement THEN <<>>
            ELSE textInBounds(elements,
                     boundsRightOf(developmentDescriptionHeadingElement,
                         applicationFeesHeadingElement,
                         IF relevantAuthorityHeadingElement = UndefinedElement
                         THEN Number_MAX_VALUE
                         ELSE relevantAuthorityHeadingElement.y
                                  - developmentDescriptionHeadingElement.y))
    IN  application(applicationNumber,
                    formatAddress(applicationNumber, textInBounds(elements, addressBounds)),
                    description, informationUrl, receivedDate)

\* the bounding rectangle from the right of a heading to the edge of the page
boundsToTheRightEdge(headingElement, y, height) ==
    [x |-> headingElement.x + headingElement.width, y |-> y,
     width |-> Number_MAX_VALUE, height |-> height]

\* parses the details from the elements of a single page (a single application)
parseNewFormatApplicationElements(elements, informationUrl) ==
    LET applicationHeadingElement == findHeadingStartingWith(elements, <<"d","e","v","e","l","o","p","m","e","n","t">>)
        applicationDateHeadingElement == findHeading(elements, <<"a","p","p","l","i","c","a","t","i","o","n","d","a","t","e">>)
        assessmentNumberHeadingElement == findHeading(elements, <<"a","s","s","e","s","s","m","e","n","t","n","u","m","b","e","r">>)
        developmentDescriptionHeadingElement == findHeading(elements, <<"d","e","v","e","l","o","p","m","e","n","t","d","e","s","c","r","i","p","t","i","o","n">>)
    IN  IF applicationHeadingElement = UndefinedElement
        THEN Ignored("the Development heading is missing")
        ELSE
    LET tokens == split(collapseSpaces(trim(applicationHeadingElement.text)), " ")
        applicationNumberElement ==
            findElementInBounds(elements,
                boundsRightOf(applicationHeadingElement, applicationDateHeadingElement,
                              applicationHeadingElement.height))
        applicationNumber ==
            IF Len(tokens) >= 2 THEN tokens[2]
            ELSE IF applicationNumberElement = UndefinedElement THEN <<>>
            ELSE removeChars(applicationNumberElement.text, WhiteSpace)
    IN  IF applicationNumber = <<>>
        THEN Ignored("the development application number text is missing")
        ELSE
    LET receivedDate ==
            receivedDateText(applicationDateHeadingElement, elements,
                boundsToTheRightEdge(applicationDateHeadingElement,
                                     applicationDateHeadingElement.y,
                                     applicationDateHeadingElement.height))
    IN  IF assessmentNumberHeadingElement = UndefinedElement
        THEN Ignored("the Assessment Number heading is missing")
        ELSE
    LET addressBounds ==
            boundsToTheRightEdge(assessmentNumberHeadingElement,
                assessmentNumberHeadingElement.y + assessmentNumberHeadingElement.height,
                IF developmentDescriptionHeadingElement = UndefinedElement
                THEN 2 * assessmentNumberHeadingElement.height
                ELSE developmentDescriptionHeadingElement.y
                         - (assessmentNumberHeadingElement.y
                                + assessmentNumberHeadingElement.height))
        description ==
            IF developmentDescriptionHeadingElement = UndefinedElement THEN <<>>
            ELSE textInBounds(elements,
                     boundsToTheRightEdge(developmentDescriptionHeadingElement,
                                          developmentDescriptionHeadingElement.y,
                                          developmentDescriptionHeadingElement.height))
    IN  application(applicationNumber,
                    formatAddress(applicationNumber, textInBounds(elements, addressBounds)),
                    description, informationUrl, receivedDate)

----------------------------------------------------------------------------
(* parsePdf, insertRow and main (src/scraper.ts)                           *)

\* the page limit of parsePdf
PageLimit == 100

\* the choice of the parser for the sorted elements of a page: the old format
\* when the "Application Fees:" heading is present
selectParser(elements) ==
    IF findHeading(elements, <<"a","p","p","l","i","c","a","t","i","o","n","f","e","e","s",":">>) = UndefinedElement
    THEN "parseNewFormatApplicationElements"
    ELSE "parseOldFormatApplicationElements"

\* the parser chosen is applied to the sorted elements of the page
parseElements(elements, url) ==
    IF selectParser(elements) = "parseOldFormatApplicationElements"
    THEN parseOldFormatApplicationElements(elements, url)
    ELSE parseNewFormatApplicationElements(elements, url)

\* one iteration of the loop of parsePdf, from the sort of the elements to the
\* choice of the parser
parsePage(elements, url) == parseElements(sortElements(elements), url)

hasApplicationNumber(applications, applicationNumber) ==
    \E i \in 1..Len(applications) : applications[i].applicationNumber = applicationNumber

\* a push that does not look for duplicates
pushAlways(applications, parsed) ==
    IF parsed.exit = "undefined" THEN applications
    ELSE Append(applications, parsed.value)

\* the end of the iteration: ignore duplicates
pushUnlessDuplicate(applications, parsed) ==
    IF parsed.exit = "undefined" THEN applications
    ELSE IF hasApplicationNumber(applications, parsed.value.applicationNumber)
    THEN applications
    ELSE Append(applications, parsed.value)

\* the row of the table [data] that insertRow binds
row(developmentApplication) ==
    [council_reference |-> developmentApplication.applicationNumber,
     address |-> developmentApplication.address,
     description |-> developmentApplication.description,
     info_url |-> developmentApplication.informationUrl,
     comment_url |-> developmentApplication.commentUrl,
     date_scraped |-> developmentApplication.scrapeDate,
     date_received |-> developmentApplication.receivedDate]

hasRow(rows, council_reference) ==
    \E i \in 1..Len(rows) : rows[i].council_reference = council_reference

\* "insert or replace into [data]": a row with the same primary key is deleted
\* and the new row is inserted
insertRow(rows, developmentApplication) ==
    Append(SelectSeq(rows, LAMBDA stored :
               stored.council_reference # developmentApplication.applicationNumber),
           row(developmentApplication))

\* "insert or ignore into [data]", the statement of the earlier revision
insertRowOrIgnore(rows, developmentApplication) ==
    IF hasRow(rows, developmentApplication.applicationNumber) THEN rows
    ELSE Append(rows, row(developmentApplication))

----------------------------------------------------------------------------
(* Numbers (src/scraper.ts).  The coordinates of the pages above are whole *)
(* numbers, on which the arithmetic of the code is exact.  Coordinates     *)
(* with fractions are binary floating point numbers: mantissa * 2^exponent *)
(* with an odd mantissa of at most MantissaBits bits, every operation      *)
(* rounded to the nearest such number, ties to the even mantissa           *)

\* the width of the mantissa (53 in the numbers of the code)
MantissaBits == 6

double(mantissa, exponent) == [mantissa |-> mantissa, exponent |-> exponent]

absolute(n) == IF n < 0 THEN -n ELSE n

\* the number of bits of a natural number
RECURSIVE bitLength(_)
bitLength(n) == IF n = 0 THEN 0 ELSE 1 + bitLength(n \div 2)

\* the same number with an odd mantissa (zero has the exponent 0)
RECURSIVE normalize(_, _)
normalize(mantissa, exponent) ==
    IF mantissa = 0 THEN double(0, 0)
    ELSE IF mantissa % 2 = 0 THEN normalize(mantissa \div 2, exponent + 1)
    ELSE double(mantissa, exponent)

\* magnitude * 2^exponent without its excess low bits, rounded to nearest, ties
\* to even
roundMagnitude(magnitude, excess) ==
    LET quotient == magnitude \div (2 ^ excess)
        remainder == magnitude % (2 ^ excess)
        half == 2 ^ (excess - 1)
    IN  IF remainder > half \/ (remainder = half /\ quotient % 2 = 1)
        THEN quotient + 1
        ELSE quotient

\* the double nearest to n * 2^exponent
round(n, exponent) ==
    IF bitLength(absolute(n)) <= MantissaBits
    THEN normalize(n, exponent)
    ELSE normalize((IF n < 0 THEN -1 ELSE 1)
                       * roundMagnitude(absolute(n),
                                        bitLength(absolute(n)) - MantissaBits),
                   exponent + bitLength(absolute(n)) - MantissaBits)

\* the mantissa of a at the exponent e, which is not above the exponent of a
scaled(a, e) == a.mantissa * (2 ^ (a.exponent - e))

\* a + b
add(a, b) ==
    round(scaled(a, Min(a.exponent, b.exponent))
              + scaled(b, Min(a.exponent, b.exponent)),
          Min(a.exponent, b.exponent))

\* a - b
subtract(a, b) ==
    round(scaled(a, Min(a.exponent, b.exponent))
              - scaled(b, Min(a.exponent, b.exponent)),
          Min(a.exponent, b.exponent))

\* a * b
multiply(a, b) == round(a.mantissa * b.mantissa, a.exponent + b.exponent)

\* a / b for b other than zero: the quotient with enough bits, and one more
\* bit that is set when the division leaves a remainder
divide(a, b) ==
    LET shift == MantissaBits + 2 + bitLength(absolute(b.mantissa))
        dividend == absolute(a.mantissa) * (2 ^ shift)
        divisor == absolute(b.mantissa)
        sign == IF (a.mantissa < 0) = (b.mantissa < 0) THEN 1 ELSE -1
    IN  round(sign * (2 * (dividend \div divisor)
                          + (IF dividend % divisor = 0 THEN 0 ELSE 1)),
              a.exponent - b.exponent - shift - 1)

\* a >= b
atLeast(a, b) ==
    scaled(a, Min(a.exponent, b.exponent)) >= scaled(b, Min(a.exponent, b.exponent))

\* Math.max(a, b) and Math.min(a, b)
mathMax(a, b) == IF atLeast(a, b) THEN a ELSE b
mathMin(a, b) == IF atLeast(b, a) THEN a ELSE b

\* intersect, on doubles, without the test that the rectangles overlap
intersectDoubleUnguarded(rectangle1, rectangle2) ==
    LET x1 == mathMax(rectangle1.x, rectangle2.x)
        y1 == mathMax(rectangle1.y, rectangle2.y)
        x2 == mathMin(add(rectangle1.x, rectangle1.width),
                      add(rectangle2.x, rectangle2.width))
        y2 == mathMin(add(rectangle1.y, rectangle1.height),
                      add(rectangle2.y, rectangle2.height))
    IN  [x |-> x1, y |-> y1, width |-> subtract(x2, x1), height |-> subtract(y2, y1)]

\* intersect, on doubles
intersectDouble(rectangle1, rectangle2) ==
    LET x1 == mathMax(rectangle1.x, rectangle2.x)
        y1 == mathMax(rectangle1.y, rectangle2.y)
        x2 == mathMin(add(rectangle1.x, rectangle1.width),
                      add(rectangle2.x, rectangle2.width))
        y2 == mathMin(add(rectangle1.y, rectangle1.height),
                      add(rectangle2.y, rectangle2.height))
    IN  IF atLeast(x2, x1) /\ atLeast(y2, y1)
        THEN [x |-> x1, y |-> y1, width |-> subtract(x2, x1), height |-> subtract(y2, y1)]
        ELSE [x |-> double(0, 0), y |-> double(0, 0),
              width |-> double(0, 0), height |-> double(0, 0)]

\* getArea, on doubles
getAreaDouble(rectangle) == multiply(rectangle.width, rectangle.height)

\* getPercentageOfElementInRectangle, on doubles
getPercentageOfElementInRectangleDouble(element, rectangle) ==
    LET elementArea == getAreaDouble(element)
        intersectionArea == getAreaDouble(intersectDouble(rectangle, element))
    IN  IF elementArea = double(0, 0)
        THEN double(0, 0)
        ELSE divide(multiply(intersectionArea, double(25, 2)), elementArea)

\* the coordinates and the sizes of the elements and of the rectangles
Coordinates == {double(0, 0), double(1, -1), double(33, 0), double(5, 3)}
Sizes == {double(0, 0), double(3, -2), double(5, -3), double(3, 2)}

\* the elements getPercentageOfElementInRectangle is applied to
OverlapElements ==
    [x : Coordinates, y : {double(0, 0), double(3, 0)},
     width : Sizes, height : Sizes \ {double(5, -3)}]

\* the rectangles getPercentageOfElementInRectangle is applied to
OverlapRectangles ==
    { [x |-> double(0, 0), y |-> double(0, 0), width |-> double(25, 2), height |-> double(25, 2)],
      [x |-> double(1, 0), y |-> double(1, 0), width |-> double(1, 5), height |-> double(1, 2)],
      [x |-> double(33, 0), y |-> double(3, 0), width |-> double(0, 0), height |-> double(3, 2)],
      [x |-> double(5, 3), y |-> double(0, 0), width |-> double(1, 3), height |-> double(1, 4)],
      \* a rectangle just right of the elements at 33 that are 0.75 wide
      [x |-> double(17, 1), y |-> double(0, 0), width |-> double(1, 3), height |-> double(1, 4)],
      \* a rectangle from a heading to a next heading that lies left of it
      [x |-> double(5, 3), y |-> double(0, 0), width |-> double(-3, 2), height |-> double(1, 4)] }

----------------------------------------------------------------------------
(* The raw addresses formatAddress is applied to: every combination of a   *)
(* house number, a street, a street suffix, a locality, a state and a post *)
(* code, each of which may be absent, followed by what the register leaves *)
(* at the end of the field                                                 *)

\* house numbers, with and without a thousands separator
HouseNumberTexts ==
    { <<>>,
      <<"5">>,
      <<"4",",","6","6","5">>,
      <<"1","1",",","2","8","7">>,
      <<"4",",","6","6","5","5">>,
      <<"L","o","t"," ","5",",">> }

\* street names, less the suffix
StreetTexts ==
    { <<>>,
      <<"B","A","Y">>,
      <<"W","e","l","l","s">>,
      <<"O","l","d">> }

\* street suffixes: abbreviated, expanded and unknown
StreetSuffixTexts ==
    { <<>>,
      <<"R","D">>,
      <<"R","d",",">>,
      <<"S","t","r","e","e","t">>,
      <<"T","C","E">>,
      <<"L","A","N","E">> }

\* suburbs and hundreds, some misspelt, some unknown
LocalityTexts ==
    { <<>>,
      <<"S","T","R","E","A","K","Y"," ","B","A","Y">>,
      <<"W","i","r","r","u","l","a">>,
      <<"H","A","S","L","A","M">>,
      <<"N","O","W","H","E","R","E">>,
      <<"H","D"," ","R","I","P","O","N">>,
      <<"H","u","n","d","r","e","d"," ","o","f"," ","F","o","r","r","e","s","t">> }

\* states
StateTexts ==
    { <<>>,
      <<"S","A">>,
      <<"v","i","c">> }

\* post codes
PostCodeTexts ==
    { <<>>,
      <<"5","6","8","0">> }

\* addresses of other shapes
OtherAddressTexts ==
    { <<"-">>,
      <<"0"," ","0",","," ","0">>,
      <<"N","o"," ","R","e","s","i","d","e","n","t","i","a","l"," ","A","d","d","r","e","s","s">>,
      <<" "," ","5"," "," ","B","A","Y"," ","R","D"," "," ","S","T","R","E","A","K","Y"," ","B","A","Y"," "," ","-","-">>,
      <<"1","2","3",",","4","5","6"," ","B","A","Y"," ","R","D"," ","H","A","S","L","A","M">>,
      <<"4",",","6","6"," ","B","A","Y"," ","R","D"," ","H","A","S","L","A","M">>,
      <<"1","1",",","2","8","7","6"," ","W","e","l","l","s"," ","S","T"," ","W","I","R","R","U","L","L","A">>,
      <<"5"," ","B","a","x"," ","R","o","a","d",","," ","S","t","r","e","a","k","y"," ","B","a","y">>,
      <<"S","e","c"," ","2","6"," ","H","D"," ","O","F"," ","H","D"," ","R","I","P","O","N">>,
      <<"L","o","t"," ","1",","," ","W","e","l","l","s"," ","S","t","r","e","e","t",","," ","S","e","c","t"," ","1","6",","," ","H","u","n","d","r","e","d"," ","o","f"," ","R","i","p","o","n">>,
      <<"5"," ","B","A","Y"," ","R","D"," ","S","T","R","E","A","K","Y"," ","B","A","Y"," ","S","a">>,
      <<"5","6","6","1">>,
      <<"S","e","c"," ","5"," ","H","d"," ","W","i","r","r","u","l","l","a">>,
      <<"5"," ","B","A","Y"," ","R","D"," ","H","A","S","L","A","M"," ","H","D"," ","R","I","P","O","N">> }

\* the parts that are present, separated by single spaces
joinPresent(parts) == join(SelectSeq(parts, LAMBDA part : part # <<>>))

AddressTexts ==
    { joinPresent(<<h, n, x, l, s, p>>) :
        h \in HouseNumberTexts, n \in StreetTexts, x \in StreetSuffixTexts,
        l \in LocalityTexts, s \in StateTexts, p \in PostCodeTexts }
    \cup OtherAddressTexts

----------------------------------------------------------------------------
(* The council's site and the pages of its registers                       *)

\* the most pages a register has
MaxPages == 2

element(text, x, y, width, height) ==
    [text |-> text, x |-> x, y |-> y, width |-> width, height |-> height]

\* a page of the old format: headings on the left, values to their right
OldFormatPage ==
    << element(<<"A","p","p","l","i","c","a","t","i","o","n"," ","N","u","m","b","e","r",":">>, 10, 10, 40, 10),
       element(<<"3","7","3","/","0","0","1","/","1","8">>, 52, 10, 30, 10),
       element(<<"A","p","p","l","i","c","a","t","i","o","n"," ","F","e","e","s",":">>, 100, 10, 40, 10),
       element(<<"A","p","p","l","i","c","a","t","i","o","n"," ","D","a","t","e",":">>, 10, 30, 40, 10),
       element(<<"5","/","2","/","2","0","1","8">>, 52, 30, 30, 10),
       element(<<"D","e","v","e","l","o","p","m","e","n","t"," ","C","o","m","p","l","e","t","e","d",":">>, 100, 30, 40, 10),
       element(<<"P","r","o","p","e","r","t","y"," ","A","d","d","r","e","s","s",":">>, 10, 50, 40, 10),
       element(<<"5"," ","B","A","Y"," ","R","D">>, 52, 50, 40, 10),
       element(<<"D","e","v","e","l","o","p","m","e","n","t"," ","D","e","s","c","r","i","p","t","i","o","n",":">>, 10, 70, 40, 10),
       element(<<"S","h","e","d">>, 52, 70, 40, 10),
       element(<<"R","e","l","e","v","a","n","t"," ","A","u","t","h","o","r","i","t","y",":">>, 10, 90, 40, 10) >>

\* the same application on a later page, with other details: the elements are
\* not in reading order, the day does not exist and there is no description
OldFormatPageAgain ==
    << element(<<"H","a","s","l","a","m">>, 75, 50, 20, 10),
       element(<<"1","2"," ","W","e","l","l","s"," ","S","t",",">>, 52, 50, 20, 10),
       element(<<"P","r","o","p","e","r","t","y"," ","A","d","d","r","e","s","s",":">>, 10, 50, 40, 10),
       element(<<"3","1","/","2","/","2","0","1","8">>, 52, 30, 30, 10),
       element(<<"A","P","P","L","I","C","A","T","I","O","N"," ","D","A","T","E",":">>, 10, 30, 40, 10),
       element(<<"A","p","p","l","i","c","a","t","i","o","n"," ","F","e","e","s",":">>, 100, 10, 40, 10),
       element(<<"3","7","3"," ","/","0","0","1","/","1","8">>, 52, 10, 30, 10),
       element(<<"A","p","p","l","i","c","a","t","i","o","n"," "," ","N","u","m","b","e","r",":">>, 10, 10, 40, 10) >>

\* a page of the new format: the number in the heading, the address below the
\* assessment number
NewFormatPage ==
    << element(<<"D","e","v","e","l","o","p","m","e","n","t"," ","3","7","3","/","0","0","2","/","1","8">>, 10, 10, 60, 10),
       element(<<"A","p","p","l","i","c","a","t","i","o","n"," ","D","a","t","e">>, 10, 30, 40, 10),
       element(<<"1","2","/","0","3","/","2","0","1","8">>, 52, 30, 30, 10),
       element(<<"A","s","s","e","s","s","m","e","n","t"," ","N","u","m","b","e","r">>, 10, 50, 40, 10),
       element(<<"S","e","c"," ","2","6"," ","H","d"," ","R","i","p","o","n">>, 52, 62, 40, 8),
       element(<<"D","e","v","e","l","o","p","m","e","n","t"," ","D","e","s","c","r","i","p","t","i","o","n">>, 10, 80, 40, 10),
       element(<<"D","w","e","l","l","i","n","g">>, 52, 80, 40, 10) >>

\* a page whose address has no suburb that can be determined
UnknownSuburbPage ==
    << element(<<"A","p","p","l","i","c","a","t","i","o","n"," ","N","u","m","b","e","r",":">>, 10, 10, 40, 10),
       element(<<"3","7","3","/","0","0","3","/","1","8">>, 52, 10, 30, 10),
       element(<<"A","p","p","l","i","c","a","t","i","o","n"," ","F","e","e","s",":">>, 100, 10, 40, 10),
       element(<<"P","r","o","p","e","r","t","y"," ","A","d","d","r","e","s","s",":">>, 10, 50, 40, 10),
       element(<<"L","o","t"," ","5"," ","O","l","d"," ","L","a","n","e"," ","N","O","W","H","E","R","E">>, 52, 50, 40, 10) >>

\* a page of the old format that lacks the heading of the application number
FeesOnlyPage ==
    << element(<<"A","p","p","l","i","c","a","t","i","o","n"," ","F","e","e","s",":">>, 100, 10, 40, 10),
       element(<<"P","r","o","p","e","r","t","y"," ","A","d","d","r","e","s","s",":">>, 10, 50, 40, 10),
       element(<<"5"," ","B","A","Y"," ","R","D">>, 52, 50, 40, 10) >>

\* the cover page of a register
CoverPage == << element(<<"D","e","v","e","l","o","p","m","e","n","t"," ","R","e","g","i","s","t","e","r">>, 10, 10, 60, 10) >>

\* what page.getTextContent() may hold
PageContents ==
    {OldFormatPage, OldFormatPageAgain, NewFormatPage, UnknownSuburbPage, CoverPage,
     FeesOnlyPage}

\* what a page may hold, part by part: the layout of its headings, the text of
\* a fees heading, and for each detail whether its heading and its text are
\* there
PageLayouts == {"old", "new"}
FeesOptions == {"none", "heading", "without colon"}
NumberOptions == {"right of heading", "in heading", "no heading", "no text"}
DateOptions == {"valid", "no heading", "no fragment", "two digit year", "no such day"}
AddressOptions == {"known", "unknown", "no heading", "no text"}
DescriptionOptions == {"present", "no heading", "no text"}

PageOptions ==
    [layout : PageLayouts, fees : FeesOptions, number : NumberOptions,
     date : DateOptions, address : AddressOptions, description : DescriptionOptions]

\* the elements of a part that is there
optional(present, partElements) == IF present THEN partElements ELSE <<>>

\* the text of the date of a page
dateTextOf(options) ==
    IF options.date = "two digit year" THEN <<"5","/","2","/","1","8">>
    ELSE IF options.date = "no such day" THEN <<"3","1","/","2","/","2","0","1","8">>
    ELSE <<"5","/","2","/","2","0","1","8">>

\* the text of the address of a page
addressTextOf(options) ==
    IF options.address = "unknown" THEN <<"L","o","t"," ","5"," ","O","l","d"," ","L","a","n","e"," ","N","O","W","H","E","R","E">>
    ELSE <<"5"," ","B","A","Y"," ","R","D">>

\* the fees heading of a page
feesElements(options, x, y) ==
    optional(options.fees # "none",
        << element(IF options.fees = "heading"
                   THEN <<"A","P","P","L","I","C","A","T","I","O","N"," "," ","F","E","E","S"," ",":">>
                   ELSE <<"A","p","p","l","i","c","a","t","i","o","n"," ","F","e","e","s">>, x, y, 40, 10) >>)

\* a page of the old format: headings that end in a colon on the left, values
\* to their right
oldLayoutPage(options) ==
    optional(options.number # "no heading",
        << element(IF options.number = "in heading"
                   THEN <<"A","p","p","l","i","c","a","t","i","o","n"," ","N","u","m","b","e","r",":"," ","3","7","3","/","0","0","4","/","1","8">>
                   ELSE <<"A","p","p","l","i","c","a","t","i","o","n"," ","N","u","m","b","e","r",":">>, 10, 10, 40, 10) >>)
    \o optional(options.number = "right of heading",
        << element(<<"3","7","3","/","0","0","4","/","1","8">>, 52, 10, 30, 10) >>)
    \o feesElements(options, 100, 10)
    \o optional(options.date # "no heading",
        << element(<<"A","p","p","l","i","c","a","t","i","o","n"," ","D","a","t","e",":">>, 10, 30, 40, 10) >>)
    \o optional(options.date \notin {"no heading", "no fragment"},
        << element(dateTextOf(options), 52, 30, 30, 10) >>)
    \o << element(<<"D","e","v","e","l","o","p","m","e","n","t"," ","C","o","m","p","l","e","t","e","d",":">>, 100, 30, 40, 10) >>
    \o optional(options.address # "no heading",
        << element(<<"P","r","o","p","e","r","t","y"," ","A","d","d","r","e","s","s",":">>, 10, 50, 40, 10) >>)
    \o optional(options.address \in {"known", "unknown"},
        << element(addressTextOf(options), 52, 50, 40, 10) >>)
    \o optional(options.description # "no heading",
        << element(<<"D","e","v","e","l","o","p","m","e","n","t"," ","D","e","s","c","r","i","p","t","i","o","n",":">>, 10, 70, 40, 10) >>)
    \o optional(options.description = "present",
        << element(<<"S","h","e","d">>, 52, 70, 40, 10) >>)
    \o << element(<<"R","e","l","e","v","a","n","t"," ","A","u","t","h","o","r","i","t","y",":">>, 10, 90, 40, 10) >>

\* a page of the new format: headings without a colon, the date to the right
\* of the number and the address below the assessment number
newLayoutPage(options) ==
    optional(options.number # "no heading",
        << element(IF options.number = "in heading"
                   THEN <<"D","e","v","e","l","o","p","m","e","n","t"," ","3","7","3","/","0","0","5","/","1","8">>
                   ELSE <<"D","e","v","e","l","o","p","m","e","n","t">>, 10, 10, 40, 10) >>)
    \o optional(options.number = "right of heading",
        << element(<<"3","7","3","/","0","0","5","/","1","8">>, 52, 10, 30, 10) >>)
    \o optional(options.date # "no heading",
        << element(<<"A","p","p","l","i","c","a","t","i","o","n"," ","D","a","t","e">>, 100, 10, 40, 10) >>)
    \o optional(options.date \notin {"no heading", "no fragment"},
        << element(dateTextOf(options), 142, 10, 30, 10) >>)
    \o optional(options.address # "no heading",
        << element(<<"A","s","s","e","s","s","m","e","n","t"," ","N","u","m","b","e","r">>, 10, 50, 40, 10) >>)
    \o optional(options.address \in {"known", "unknown"},
        << element(addressTextOf(options), 52, 62, 40, 8) >>)
    \o optional(options.description # "no heading",
        << element(<<"D","e","v","e","l","o","p","m","e","n","t"," ","D","e","s","c","r","i","p","t","i","o","n">>, 10, 80, 40, 10) >>)
    \o optional(options.description = "present",
        << element(<<"S","h","e","d">>, 52, 80, 40, 10) >>)
    \o feesElements(options, 10, 100)

\* how many fragments lie at the edges of the value rectangles of a page
MaxFragments == 3

\* the headings of a page of the old format, with its number and the start of
\* its address: the rectangle of the address is x 50..100, y 50..60, and the
\* rectangle of the description is x 50..100, y 70..110
HeadingsOfDeliveredPage ==
    << element(<<"A","p","p","l","i","c","a","t","i","o","n"," ","N","u","m","b","e","r",":">>, 10, 10, 40, 10),
       element(<<"3","7","3","/","0","0","6","/","1","8">>, 52, 10, 30, 10),
       element(<<"A","p","p","l","i","c","a","t","i","o","n"," ","F","e","e","s",":">>, 100, 10, 40, 10),
       element(<<"P","r","o","p","e","r","t","y"," ","A","d","d","r","e","s","s",":">>, 10, 50, 40, 10),
       element(<<"5"," ","B","A","Y"," ","R","D">>, 52, 50, 40, 10),
       element(<<"D","e","v","e","l","o","p","m","e","n","t"," ","D","e","s","c","r","i","p","t","i","o","n",":">>, 10, 70, 40, 10),
       element(<<"R","e","l","e","v","a","n","t"," ","A","u","t","h","o","r","i","t","y",":">>, 10, 110, 40, 10) >>

\* fragments inside, across the edge of and at the edge of the rectangles, in
\* ascending (y, then x) order
EdgeFragments ==
    << element(<<"H","A","S","L","A","M">>, 98, 50, 10, 10),
       element(<<"W","I","R","R","U","L","L","A">>, 99, 50, 10, 10),
       element(<<"N","e","w">>, 52, 70, 20, 10),
       element(<<"s","h","e","d">>, 75, 70, 20, 10),
       element(<<"n","o","r","t","h">>, 99, 70, 10, 10),
       element(<<"c","a","r","p","o","r","t">>, 98, 82, 10, 10),
       element(<<"b","e","l","o","w">>, 52, 109, 20, 10) >>

\* the fragments a page holds, in the order the decoder delivers them
FragmentOrders ==
    {order \in [1..MaxFragments -> 1..Len(EdgeFragments)] :
        \A i, j \in 1..MaxFragments : order[i] = order[j] => i = j}

DeliveredPageOptions ==
    [layout : {"delivered"}, fragments : FragmentOrders, headingsFirst : BOOLEAN]

\* Array.prototype.reverse()
reverse(tokens) == [i \in 1..Len(tokens) |-> tokens[Len(tokens) + 1 - i]]

\* a page whose fragments are delivered after its headings, or before its
\* headings in reverse order
deliveredPage(options) ==
    LET delivered == [i \in 1..Len(options.fragments) |-> EdgeFragments[options.fragments[i]]]
    IN  IF options.headingsFirst
        THEN HeadingsOfDeliveredPage \o delivered
        ELSE delivered \o reverse(HeadingsOfDeliveredPage)

\* the elements page.getTextContent() gives for a page
elementsOfPage(options) ==
    IF options.layout = "old" THEN oldLayoutPage(options)
    ELSE IF options.layout = "new" THEN newLayoutPage(options)
    ELSE deliveredPage(options)

\* what the council's site may link to: the pages of the years, and the PDFs
\* each of them links to
Sites ==
    { [yearPageUrls |-> <<>>, pdfUrls |-> <<>>],
      [yearPageUrls |-> <<"2018", "2017">>,
       pdfUrls |-> << <<"2018/register.pdf">>, <<"2017/register.pdf">> >>],
      [yearPageUrls |-> <<"2018", "2017">>,
       pdfUrls |-> << <<>>, <<"2017/register.pdf">> >>] }

----------------------------------------------------------------------------
(* The files of suburb names main may read                                 *)

\* how many lines suburbnames.txt has
MaxLines == 2

\* lines of suburbnames.txt: names in upper and in mixed case, with spaces
\* around them and between their words, and names one edit apart
SuburbLines ==
    { <<"S","T","R","E","A","K","Y"," ","B","A","Y",",","S","T","R","E","A","K","Y"," ","B","A","Y"," ","S","A"," ","5","6","8","0">>,
      <<"S","t","r","e","a","k","y"," ","B","a","y"," ",","," ","S","t","r","e","a","k","y"," ","B","a","y"," ","S","A"," ","5","6","8","0">>,
      <<" "," ","H","A","S","L","A","M",",","H","A","S","L","A","M"," ","5","6","8","0">>,
      <<"H","A","S","L","A","N",",","H","A","S","L","A","N"," ","S","A"," ","5","6","8","1">>,
      <<"P","O","R","T"," "," ","K","E","N","N","Y",",","P","O","R","T"," ","K","E","N","N","Y"," ","S","A"," ","5","6","7","1">>,
      <<"W","I","R","R","U","L","L","A",",","W","I","R","R","U","L","L","A"," ","S","A"," ","5","6","6","1">>,
      <<"W","i","r","u","l","l","a",",","W","I","R","R","U","L","L","A"," ","S","A"," ","5","6","6","1">> }

\* no two names of a file differ only in the white space between their words
SuburbFiles == UNION {[1..n -> SuburbLines] : n \in 1..MaxLines}

----------------------------------------------------------------------------
(* Specifications                                                          *)

GazetteerLoaded ==
    /\ StreetNames = loadStreetNames(streetnames_txt, <<>>)
    /\ StreetSuffixes = loadStreetSuffixes(streetsuffixes_txt, <<>>)
    /\ SuburbNames = loadSuburbNames(suburbnames_txt, <<>>)
    /\ HundredNames = loadHundredNames(hundrednames_txt, <<>>)

gazetteer == <<StreetNames, StreetSuffixes, SuburbNames, HundredNames>>
\* main is at the position given and has selected no PDF
PipelineAt(position) ==
    /\ pc = position
    /\ selectedPdfUrls = <<>>
    /\ pdfIndex = 0
    /\ numPages = 0
    /\ pageIndex = 0
    /\ pages = <<>>
    /\ developmentApplications = <<>>
    /\ saveIndex = 0
    /\ database = <<>>
    /\ databaseOrIgnore = <<>>
    /\ inserted = <<>>
    /\ rejected = <<>>
    /\ acquired = 0
    /\ destroyed = 0

pipeline == <<pc, selectedPdfUrls, pdfIndex, numPages, pageIndex, pages,
              developmentApplications, saveIndex, database, databaseOrIgnore, inserted,
              rejected, acquired, destroyed>>
comparison == <<candidateA, candidateB, compared, sorted>>
overlap == <<overlapElement, overlapRectangle, overlapPercentage>>
repeated == <<formattedAgain, lastIndex>>
lookups == <<suburbFile, lookup>>
parsing == <<pageOptions, pageParser, pageResult>>
addressParsing == <<addressFields, parsedAddress>>

PipelineIdle == PipelineAt("done")

ComparisonIdle ==
    /\ candidateA = Undefined
    /\ candidateB = Undefined
    /\ compared = Pending
    /\ sorted = <<>>

LookupIdle ==
    /\ suburbFile = suburbnames_txt
    /\ lookup = Pending

AddressParsingIdle ==
    /\ addressFields = Undefined
    /\ parsedAddress = Pending

ParsingIdle ==
    /\ pageOptions = Undefined
    /\ pageParser = Pending
    /\ pageResult = Pending

RepeatedIdle ==
    /\ formattedAgain = Pending
    /\ lastIndex = 0

OverlapIdle ==
    /\ overlapElement = Undefined
    /\ overlapRectangle = Undefined
    /\ overlapPercentage = Pending

\* formatAddress is called with a raw address
InitFormatAddress ==
    /\ GazetteerLoaded
    /\ address \in AddressTexts
    /\ formatted = Pending
    /\ PipelineIdle
    /\ ComparisonIdle
    /\ OverlapIdle
    /\ RepeatedIdle
    /\ AddressParsingIdle
    /\ LookupIdle
    /\ ParsingIdle

\* formatAddress returns
FormatAddress ==
    /\ formatted.exit = "pending"
    /\ formatted' = formatAddressLocals(address)
    /\ lastIndex' = lastIndexAfterTest(formatted', lastIndex)
    /\ UNCHANGED <<address, formattedAgain, lookups, addressParsing, parsing, gazetteer, pipeline, comparison, overlap>>

\* formatAddress is called with the same address once more, and returns
FormatAddressAgain ==
    /\ formatted.exit # "pending"
    /\ formattedAgain.exit = "pending"
    /\ formattedAgain' = formatAddressLocals(address)
    /\ lastIndex' = lastIndexAfterTest(formattedAgain', lastIndex)
    /\ UNCHANGED <<address, formatted, lookups, addressParsing, parsing, gazetteer, pipeline, comparison, overlap>>

NextFormatAddress == FormatAddress \/ FormatAddressAgain

SpecFormatAddress == InitFormatAddress /\ [][NextFormatAddress]_vars

\* parseAddress has pushed two addresses
InitAddressComparer ==
    /\ GazetteerLoaded
    /\ address = <<>>
    /\ formatted = Pending
    /\ PipelineIdle
    /\ candidateA \in AddressCandidates
    /\ candidateB \in AddressCandidates
    \* the addresses of one candidate share the candidate object and so its flag
    /\ candidateA.candidate.index = candidateB.candidate.index
           => candidateA.candidate = candidateB.candidate
    /\ compared = Pending
    /\ sorted = <<>>
    /\ OverlapIdle
    /\ RepeatedIdle
    /\ AddressParsingIdle
    /\ LookupIdle
    /\ ParsingIdle

\* addressComparer(candidateA, candidateB) returns
CompareAddresses ==
    /\ compared.exit = "pending"
    /\ compared' = addressComparer(candidateA, candidateB)
    /\ UNCHANGED <<overlap, repeated, lookups, addressParsing, parsing, address, formatted, gazetteer, pipeline, candidateA, candidateB, sorted>>

\* [candidateA, candidateB].sort(addressComparer) returns
SortAddresses ==
    /\ sorted = <<>>
    /\ \E engine \in SortEngines :
           sorted' = sortTwo(candidateA, candidateB, engine)
    /\ UNCHANGED <<overlap, repeated, lookups, addressParsing, parsing, address, formatted, gazetteer, pipeline, candidateA, candidateB, compared>>

NextAddressComparer == CompareAddresses \/ SortAddresses

SpecAddressComparer == InitAddressComparer /\ [][NextAddressComparer]_vars

\* parseAddress is about to be applied to the fields of a record
InitParseAddress ==
    /\ GazetteerLoaded
    /\ address = <<>>
    /\ formatted = Pending
    /\ PipelineIdle
    /\ ComparisonIdle
    /\ OverlapIdle
    /\ RepeatedIdle
    /\ LookupIdle
    /\ ParsingIdle
    /\ addressFields \in [houseNumber : HouseNumberFields, streetName : StreetNameFields,
                          suburbName : SuburbNameFields, engine : SortEngines]
    /\ parsedAddress = Pending

\* parseAddress(houseNumber, streetName, suburbName) returns
ParseAddress ==
    /\ parsedAddress.exit = "pending"
    /\ parsedAddress' = parseAddress(addressFields.houseNumber, addressFields.streetName,
                                     addressFields.suburbName, addressFields.engine)
    /\ UNCHANGED <<address, formatted, repeated, lookups, parsing, addressFields, gazetteer,
                   pipeline, comparison, overlap>>

NextParseAddress == ParseAddress

SpecParseAddress == InitParseAddress /\ [][NextParseAddress]_vars

\* main is about to read the files
InitSuburbNames ==
    /\ address = <<>>
    /\ formatted = Pending
    /\ RepeatedIdle
    /\ AddressParsingIdle
    /\ PipelineAt("load")
    /\ ComparisonIdle
    /\ OverlapIdle
    /\ StreetNames = Null
    /\ StreetSuffixes = Null
    /\ SuburbNames = Null
    /\ HundredNames = Null
    /\ suburbFile \in SuburbFiles
    /\ lookup = Pending
    /\ ParsingIdle

\* main reads the files of street names, street suffixes, suburb names and
\* hundred names
ReadSuburbNames ==
    /\ pc = "load"
    /\ StreetNames' = loadStreetNames(streetnames_txt, <<>>)
    /\ StreetSuffixes' = loadStreetSuffixes(streetsuffixes_txt, <<>>)
    /\ SuburbNames' = loadSuburbNames(suburbFile, <<>>)
    /\ HundredNames' = loadHundredNames(hundrednames_txt, <<>>)
    /\ pc' = "select"
    /\ UNCHANGED <<address, formatted, repeated, lookups, addressParsing, parsing, comparison, overlap, selectedPdfUrls,
                   pdfIndex, numPages, pageIndex, pages, developmentApplications, saveIndex,
                   database, databaseOrIgnore, inserted, rejected, acquired, destroyed>>

\* didYouMean(key, Object.keys(SuburbNames), {..., threshold: 0}) for a key of
\* SuburbNames
LookUpSuburbName ==
    /\ pc = "select"
    /\ lookup.exit = "pending"
    /\ \E i \in 1..Len(SuburbNames) :
           lookup' = [exit |-> "return",
                      key |-> keys(SuburbNames)[i],
                      match |-> didYouMean(keys(SuburbNames)[i], keys(SuburbNames), 0)]
    /\ UNCHANGED <<address, formatted, repeated, suburbFile, parsing, addressParsing, gazetteer, pipeline,
                   comparison, overlap>>

NextSuburbNames == ReadSuburbNames \/ LookUpSuburbName

SpecSuburbNames == InitSuburbNames /\ [][NextSuburbNames]_vars

\* parsePdf is at a page of a register
InitParsePage ==
    /\ GazetteerLoaded
    /\ address = <<>>
    /\ formatted = Pending
    /\ PipelineIdle
    /\ ComparisonIdle
    /\ OverlapIdle
    /\ RepeatedIdle
    /\ AddressParsingIdle
    /\ LookupIdle
    /\ pageOptions \in PageOptions
    /\ pageParser = Pending
    /\ pageResult = Pending

\* one iteration of the loop of parsePdf: the elements are sorted, a parser is
\* chosen and applied
ParseOnePage ==
    /\ pageResult = Pending
    /\ pageParser' = selectParser(sortElements(elementsOfPage(pageOptions)))
    /\ pageResult' = parsePage(elementsOfPage(pageOptions), "2018/register.pdf")
    /\ UNCHANGED <<address, formatted, repeated, lookups, addressParsing, pageOptions, gazetteer, pipeline,
                   comparison, overlap>>

NextParsePage == ParseOnePage

SpecParsePage == InitParsePage /\ [][NextParsePage]_vars

\* parsePdf is at a page whose fragments are delivered in some order
InitValueText ==
    /\ GazetteerLoaded
    /\ address = <<>>
    /\ formatted = Pending
    /\ PipelineIdle
    /\ ComparisonIdle
    /\ OverlapIdle
    /\ RepeatedIdle
    /\ AddressParsingIdle
    /\ LookupIdle
    /\ pageOptions \in DeliveredPageOptions
    /\ pageParser = Pending
    /\ pageResult = Pending

SpecValueText == InitValueText /\ [][NextParsePage]_vars

\* getPercentageOfElementInRectangle is called with an element and a rectangle
InitOverlap ==
    /\ GazetteerLoaded
    /\ address = <<>>
    /\ formatted = Pending
    /\ PipelineIdle
    /\ ComparisonIdle
    /\ overlapElement \in OverlapElements
    /\ overlapRectangle \in OverlapRectangles
    /\ overlapPercentage = Pending
    /\ RepeatedIdle
    /\ AddressParsingIdle
    /\ LookupIdle
    /\ ParsingIdle

\* getPercentageOfElementInRectangle(overlapElement, overlapRectangle) returns
GetPercentageOfElementInRectangle ==
    /\ overlapPercentage = Pending
    /\ overlapPercentage' =
           getPercentageOfElementInRectangleDouble(overlapElement, overlapRectangle)
    /\ UNCHANGED <<address, gazetteer, formatted, repeated, lookups, addressParsing, parsing, pipeline, comparison,
                   overlapElement, overlapRectangle>>

NextOverlap == GetPercentageOfElementInRectangle

SpecOverlap == InitOverlap /\ [][NextOverlap]_vars

----------------------------------------------------------------------------
(* main (src/scraper.ts): the specification of the scraper                 *)

Init ==
    /\ address = <<>>
    /\ formatted = Pending
    /\ ComparisonIdle
    /\ OverlapIdle
    /\ RepeatedIdle
    /\ AddressParsingIdle
    /\ LookupIdle
    /\ ParsingIdle
    /\ StreetNames = Null
    /\ StreetSuffixes = Null
    /\ SuburbNames = Null
    /\ HundredNames = Null
    /\ pc = "load"
    /\ selectedPdfUrls = <<>>
    /\ pdfIndex = 0
    /\ numPages = 0
    /\ pageIndex = 0
    /\ pages = <<>>
    /\ developmentApplications = <<>>
    /\ saveIndex = 0
    /\ database = <<>>
    /\ databaseOrIgnore = <<>>
    /\ inserted = <<>>
    /\ rejected = <<>>
    /\ acquired = 0
    /\ destroyed = 0

\* main reads the files of street names, street suffixes, suburb names and
\* hundred names
LoadGazetteers ==
    /\ pc = "load"
    /\ StreetNames' = loadStreetNames(streetnames_txt, <<>>)
    /\ StreetSuffixes' = loadStreetSuffixes(streetsuffixes_txt, <<>>)
    /\ SuburbNames' = loadSuburbNames(suburbnames_txt, <<>>)
    /\ HundredNames' = loadHundredNames(hundrednames_txt, <<>>)
    /\ pc' = "select"
    /\ UNCHANGED <<overlap, repeated, lookups, addressParsing, parsing, address, formatted, comparison, selectedPdfUrls, pdfIndex, numPages,
                   pageIndex, pages, developmentApplications, saveIndex, database,
                   databaseOrIgnore, inserted,
                   rejected, acquired, destroyed>>

\* the PDFs main selects: the most recent PDF of the current year, and a PDF
\* picked at random from the page of a year picked at random
selectPdfUrls(site, randomYear, randomPdf) ==
    LET currentYearPdfUrls == site.pdfUrls[1]
        randomYearPdfUrls == site.pdfUrls[randomYear]
    IN  (IF Len(currentYearPdfUrls) > 0
         THEN <<currentYearPdfUrls[Len(currentYearPdfUrls)]>> ELSE <<>>)
        \o (IF Len(randomYearPdfUrls) > 0
            THEN <<randomYearPdfUrls[randomPdf]>> ELSE <<>>)

\* main reads the site and selects the PDFs; it returns when there are none
SelectPdfs ==
    /\ pc = "select"
    /\ \E site \in Sites :
           IF Len(site.yearPageUrls) = 0
           THEN /\ selectedPdfUrls' = <<>>
                /\ pdfIndex' = 0
                /\ pc' = "done"
           ELSE \E randomYear \in 1..Len(site.yearPageUrls) :
                \E randomPdf \in 1..Max(1, Len(site.pdfUrls[randomYear])) :
                    /\ selectedPdfUrls' = selectPdfUrls(site, randomYear, randomPdf)
                    /\ pdfIndex' = IF selectedPdfUrls' = <<>> THEN 0 ELSE 1
                    /\ pc' = IF selectedPdfUrls' = <<>> THEN "done" ELSE "request"
    /\ UNCHANGED <<overlap, repeated, lookups, addressParsing, parsing, address, formatted, comparison, gazetteer, numPages, pageIndex, pages,
                   developmentApplications, saveIndex, database, databaseOrIgnore,
                   inserted,
                   rejected, acquired, destroyed>>

\* parsePdf requests the PDF, in a program that empties StreetNames for each
\* document
RequestPdfResettingStreetNames ==
    /\ pc = "request"
    /\ numPages' \in 0..MaxPages
    /\ pageIndex' = 0
    /\ pages' = <<>>
    /\ developmentApplications' = <<>>
    /\ pc' = "parse"
    /\ StreetNames' = <<>>
    /\ UNCHANGED <<overlap, repeated, lookups, addressParsing, parsing, address, formatted, comparison,
                   StreetSuffixes, SuburbNames, HundredNames, selectedPdfUrls, pdfIndex,
                   saveIndex, database, databaseOrIgnore, inserted,
                   rejected, acquired, destroyed>>

\* parsePdf requests the PDF
RequestPdf ==
    /\ pc = "request"
    /\ numPages' \in 0..MaxPages
    /\ pageIndex' = 0
    /\ pages' = <<>>
    /\ developmentApplications' = <<>>
    /\ pc' = "parse"
    /\ UNCHANGED <<overlap, repeated, lookups, addressParsing, parsing, address, formatted, comparison, gazetteer, selectedPdfUrls, pdfIndex,
                   saveIndex, database, databaseOrIgnore, inserted,
                   rejected, acquired, destroyed>>

\* an iteration that ends the loop when the page yields no record
ParsePageUntilIgnored ==
    /\ pc = "parse"
    /\ pageIndex < PageLimit
    /\ pageIndex < numPages
    /\ \E elements \in PageContents :
       \E developmentApplication \in {parsePage(elements, selectedPdfUrls[pdfIndex])} :
           /\ pages' = Append(pages, developmentApplication)
           /\ developmentApplications' =
                  pushUnlessDuplicate(developmentApplications, developmentApplication)
           /\ pc' = IF developmentApplication.exit = "undefined" THEN "save" ELSE pc
           /\ saveIndex' = IF developmentApplication.exit = "undefined" THEN 1 ELSE saveIndex
    /\ pageIndex' = pageIndex + 1
    /\ acquired' = acquired + 1
    /\ destroyed' = destroyed + 1
    /\ UNCHANGED <<overlap, repeated, lookups, addressParsing, parsing, address, formatted, comparison, gazetteer, selectedPdfUrls, pdfIndex,
                   numPages, database, databaseOrIgnore, inserted, rejected>>

\* one iteration of a loop that has no limit of pages
ParsePageWithoutLimitOf(contents) ==
    /\ pc = "parse"
    /\ pageIndex < numPages
    /\ \E elements \in contents :
       \E developmentApplication \in {parsePage(elements, selectedPdfUrls[pdfIndex])} :
           /\ pages' = Append(pages, developmentApplication)
           /\ developmentApplications' =
                  pushUnlessDuplicate(developmentApplications, developmentApplication)
    /\ pageIndex' = pageIndex + 1
    /\ acquired' = acquired + 1
    /\ destroyed' = destroyed + 1
    /\ UNCHANGED <<overlap, repeated, lookups, addressParsing, parsing, address, formatted, comparison, gazetteer, pc, selectedPdfUrls, pdfIndex,
                   numPages, saveIndex, database, databaseOrIgnore, inserted,
                   rejected>>

\* one iteration of the loop of parsePdf, for a page with one of the contents
\* given
ParsePageOf(contents) ==
    /\ pc = "parse"
    /\ pageIndex < PageLimit
    /\ pageIndex < numPages
    /\ \E elements \in contents :
       \E developmentApplication \in {parsePage(elements, selectedPdfUrls[pdfIndex])} :
           /\ pages' = Append(pages, developmentApplication)
           /\ developmentApplications' =
                  pushUnlessDuplicate(developmentApplications, developmentApplication)
    /\ pageIndex' = pageIndex + 1
    /\ acquired' = acquired + 1
    /\ destroyed' = destroyed + 1
    /\ UNCHANGED <<overlap, repeated, lookups, addressParsing, parsing, address, formatted, comparison, gazetteer, pc, selectedPdfUrls, pdfIndex,
                   numPages, saveIndex, database, databaseOrIgnore, inserted,
                   rejected>>

\* one iteration of the loop of parsePdf
ParsePage == ParsePageOf(PageContents)

\* the loop of parsePdf ends and parsePdf returns the records: at the page
\* limit, or when the document that was read for the next page has no such page
ReturnApplications ==
    /\ pc = "parse"
    /\ ~(pageIndex < PageLimit /\ pageIndex < numPages)
    /\ acquired' = IF pageIndex < PageLimit THEN acquired + 1 ELSE acquired
    /\ destroyed' = destroyed
    /\ pc' = "save"
    /\ saveIndex' = 1
    /\ UNCHANGED <<overlap, repeated, lookups, addressParsing, parsing, address, formatted, comparison, gazetteer, selectedPdfUrls, pdfIndex,
                   numPages, pageIndex, pages, developmentApplications, database,
                   databaseOrIgnore, inserted,
                   rejected>>

\* main hands the next record to insertRow, which saves it
InsertRow ==
    /\ pc = "save"
    /\ saveIndex <= Len(developmentApplications)
    /\ database' = insertRow(database, developmentApplications[saveIndex])
    /\ databaseOrIgnore' =
           insertRowOrIgnore(databaseOrIgnore, developmentApplications[saveIndex])
    /\ inserted' = Append(inserted, developmentApplications[saveIndex])
    /\ saveIndex' = saveIndex + 1
    /\ UNCHANGED <<overlap, repeated, lookups, addressParsing, parsing, address, formatted, comparison, gazetteer, pc, selectedPdfUrls, pdfIndex,
                   numPages, pageIndex, pages, developmentApplications,
                   rejected, acquired, destroyed>>

\* the statement fails: insertRow rejects and main ends
InsertRowFails ==
    /\ pc = "save"
    /\ saveIndex <= Len(developmentApplications)
    /\ rejected' = Append(rejected, developmentApplications[saveIndex])
    /\ pc' = "failed"
    /\ UNCHANGED <<overlap, repeated, lookups, addressParsing, parsing, address, formatted, comparison, gazetteer, selectedPdfUrls, pdfIndex,
                   numPages, pageIndex, pages, developmentApplications, saveIndex,
                   database, databaseOrIgnore, inserted,
                   acquired, destroyed>>

\* main goes on to the next PDF, or ends
NextPdf ==
    /\ pc = "save"
    /\ saveIndex > Len(developmentApplications)
    /\ IF pdfIndex < Len(selectedPdfUrls)
       THEN pdfIndex' = pdfIndex + 1 /\ pc' = "request"
       ELSE pdfIndex' = pdfIndex /\ pc' = "done"
    /\ UNCHANGED <<overlap, repeated, lookups, addressParsing, parsing, address, formatted, comparison, gazetteer, selectedPdfUrls, numPages,
                   pageIndex, pages, developmentApplications, saveIndex, database,
                   databaseOrIgnore, inserted,
                   rejected, acquired, destroyed>>

\* the numbers of pages a PDF may report, around the limit of parsePdf
PageCounts == {0, 1, PageLimit - 1, PageLimit, PageLimit + 1, 2 * PageLimit}

\* parsePdf has requested a register with many pages
InitPageLimit ==
    /\ GazetteerLoaded
    /\ address = <<>>
    /\ formatted = Pending
    /\ ComparisonIdle
    /\ OverlapIdle
    /\ RepeatedIdle
    /\ AddressParsingIdle
    /\ LookupIdle
    /\ ParsingIdle
    /\ pc = "parse"
    /\ selectedPdfUrls = <<"2018/register.pdf">>
    /\ pdfIndex = 1
    /\ numPages \in PageCounts
    /\ pageIndex = 0
    /\ pages = <<>>
    /\ developmentApplications = <<>>
    /\ saveIndex = 0
    /\ database = <<>>
    /\ databaseOrIgnore = <<>>
    /\ inserted = <<>>
    /\ rejected = <<>>
    /\ acquired = 0
    /\ destroyed = 0

\* the loop of parsePdf over a register whose pages all hold one application
NextPageLimit ==
    \/ ParsePageOf({NewFormatPage})
    \/ ReturnApplications

SpecPageLimit == InitPageLimit /\ [][NextPageLimit]_vars

\* a step of the loop of parsePdf: the counter goes up by one, or the loop ends
LoopAdvances ==
    /\ pc = "parse"
    /\ \/ pageIndex' = pageIndex + 1 /\ pc' = pc
       \/ pageIndex' = pageIndex /\ pc' = "save"

\* every await of the loop resolves, so the loop goes on until it ends
SpecPageLimitFair == SpecPageLimit /\ WF_<<pc, pageIndex>>(LoopAdvances)

Next ==
    \/ LoadGazetteers
    \/ SelectPdfs
    \/ RequestPdf
    \/ ParsePage
    \/ ReturnApplications
    \/ InsertRow
    \/ InsertRowFails
    \/ NextPdf

Spec == Init /\ [][Next]_vars

----------------------------------------------------------------------------
(* Properties of parsePdf and insertRow (Spec)                             *)

\* page p of the PDF yielded a record, and no page before it yielded a record
\* with the same application number
isFirstYield(p) ==
    /\ pages[p].exit = "return"
    /\ \A q \in 1..(p - 1) :
           pages[q].exit = "return" =>
               pages[q].value.applicationNumber # pages[p].value.applicationNumber

\* the list holds no application number twice, and what it holds for a number
\* is the record of the first page that yielded the number
C1Kept ==
    /\ \A i, j \in 1..Len(developmentApplications) :
           i # j => developmentApplications[i].applicationNumber
                        # developmentApplications[j].applicationNumber
    /\ \A p \in 1..Len(pages) :
           isFirstYield(p) =>
               \E i \in 1..Len(developmentApplications) :
                   developmentApplications[i] = pages[p].value
    /\ \A i \in 1..Len(developmentApplications) :
           \E p \in 1..Len(pages) :
               isFirstYield(p) /\ developmentApplications[i] = pages[p].value

\* a page that yields a number the list holds already leaves the list as it is
C1DuplicateIgnored ==
    ( /\ Len(pages') = Len(pages) + 1
      /\ pages'[Len(pages')].exit = "return"
      /\ hasApplicationNumber(developmentApplications,
                              pages'[Len(pages')].value.applicationNumber) )
    => developmentApplications' = developmentApplications

\* C1: whatever pages parsePdf has processed, the accumulated list holds no two
\* records with the same applicationNumber, the record kept for a number is the
\* one of the first page that yielded it, and a later page that yields a number
\* already present leaves the list unchanged.
C1FirstPageWins == []C1Kept /\ [][C1DuplicateIgnored]_vars

\* two pages have yielded different records with one number; the first is kept
C1Witness ==
    /\ Len(pages) = 2
    /\ pages[1].exit = "return" /\ pages[2].exit = "return"
    /\ pages[1].value.applicationNumber = pages[2].value.applicationNumber
    /\ pages[1].value # pages[2].value
    /\ developmentApplications = <<pages[1].value>>

\* the row stored for each record handed to insertRow is the row of the first
\* record handed to it with that application number
firstInsertKept(rows) ==
    \A k \in 1..Len(inserted) :
        LET first == CHOOSE i \in 1..k :
                         /\ inserted[i].applicationNumber = inserted[k].applicationNumber
                         /\ \A j \in 1..(i - 1) :
                                inserted[j].applicationNumber
                                    # inserted[k].applicationNumber
        IN  \E i \in 1..Len(rows) :
                /\ rows[i] = row(inserted[first])
                /\ \A j \in 1..Len(rows) :
                       rows[j].council_reference = rows[i].council_reference => j = i

\* C2: insertRow inserts a record only if no row with its applicationNumber is
\* stored: after any sequence of calls the row stored for a key is that of the
\* first record inserted with the key.
C2FirstInsertKept == firstInsertKept(database)

\* the same, for the table the "insert or ignore" of the earlier revision fills
C2FirstInsertKeptByInsertOrIgnore == firstInsertKept(databaseOrIgnore)

\* parsePdf has returned
parsePdfReturned == pc \in {"save", "done", "failed"}

----------------------------------------------------------------------------
(* Properties of formatAddress (SpecFormatAddress)                         *)

\* formatAddress has returned
Formatted == formatted.exit # "pending"

\* formatAddress went on past the post code and the state
Tokenised == formatted.exit \in {"no suburb", "end"}

\* /\bword\b/.test(a)
containsWord(a, word) ==
    \E i \in 1..(Len(a) - Len(word) + 1) :
        /\ SubSeq(a, i, i + Len(word) - 1) = word
        /\ (i = 1 \/ ~IsWordChar(a[i - 1]))
        /\ (i + Len(word) - 1 = Len(a) \/ ~IsWordChar(a[i + Len(word)]))

\* none of the last 1 to 4 tokens, taken together, is a suburb name to within
\* an edit distance of 1
matchesNoSuburbName(tokens) ==
    \A index \in 1..4 :
        didYouMean(join(sliceLast(tokens, index)), keys(SuburbNames), 1) = Null

C4SuburbRequired ==
    (Formatted /\ formatted.result # <<>>) =>
        (formatted.exit = "end" /\ formatted.suburbName # Undefined)

\* C5: a state token in front of the optional post code (in any letter case)
\* becomes the state of the returned address; without one the state of the
\* returned address is SA.
C5StateAdopted ==
    formatted.exit = "end" =>
        /\ containsWord(formatted.result, formatted.state)
        /\ \A other \in StateCodes \ {formatted.state} :
               ~containsWord(formatted.result, other)

\* C6: every non-empty address formatAddress returns is entirely upper-case.
C6UpperCase ==
    (Formatted /\ formatted.result # <<>>) =>
        formatted.result = toUpperCase(formatted.result)

\* the address begins with one or two digits, a comma and exactly three digits
beginsWithThousands(a, leading) ==
    /\ matchesDigitCommaDigits(a, leading)
    /\ (Len(a) = leading + 4 \/ ~IsDigit(a[leading + 5]))

\* C7: the comma of a leading house number is deleted exactly when the address
\* begins with one or two digits, a comma and exactly three digits; any other
\* address is left unchanged by this step.
C7CommaDeleted ==
    (Formatted /\ formatted.exit # "ignored") =>
        formatted.address =
            IF beginsWithThousands(formatted.cleaned, 1)
            THEN SubSeq(formatted.cleaned, 1, 1)
                     \o SubSeq(formatted.cleaned, 3, Len(formatted.cleaned))
            ELSE IF beginsWithThousands(formatted.cleaned, 2)
            THEN SubSeq(formatted.cleaned, 1, 2)
                     \o SubSeq(formatted.cleaned, 4, Len(formatted.cleaned))
            ELSE formatted.cleaned

\* the token in front of the suburb name, without its trailing commas
suffixToken ==
    trim(stripTrailing(trim(formatted.suburbTokens[Len(formatted.suburbTokens)]), {","}))

\* C8: once the suburb tokens are removed, the last token (trailing commas
\* stripped, compared without regard to case) is replaced by its full suffix
\* word when it is a known abbreviation, is kept (as the full word) when it is
\* a full suffix word already, and is pushed back unchanged otherwise; the
\* tokens in front of it stay as they are, and the address returned shows the
\* expanded word.
C8SuffixExpanded ==
    (Tokenised /\ Len(formatted.suburbTokens) > 0) =>
        LET upper == toUpperCase(suffixToken)
            count == Len(formatted.suburbTokens)
            pushed == formatted.expandedTokens[count]
        IN  /\ Len(formatted.expandedTokens) = count
            /\ SubSeq(formatted.expandedTokens, 1, count - 1)
                   = SubSeq(formatted.suburbTokens, 1, count - 1)
            /\ pushed = IF upper \in Range(keys(StreetSuffixes))
                        THEN get(StreetSuffixes, upper)
                        ELSE IF upper \in Range(values(StreetSuffixes))
                        THEN upper
                        ELSE suffixToken
            /\ (formatted.exit = "end" /\ upper \in Range(keys(StreetSuffixes)))
                   => containsWord(formatted.result, get(StreetSuffixes, upper))

\* "Rd," in front of a suburb name comes back as "ROAD" in the address returned
C8Witness ==
    /\ formatted.exit = "end"
    /\ formatted.suburbIndex > 0
    /\ Len(formatted.suburbTokens) > 1
    /\ formatted.suburbTokens[Len(formatted.suburbTokens)] = <<"R","d",",">>
    /\ formatted.expandedTokens[Len(formatted.expandedTokens)] = <<"R","O","A","D">>
    /\ containsWord(formatted.result, <<"R","O","A","D">>)
    /\ ~containsWord(formatted.result, <<"R","d">>)

\* the hundred name the last index tokens match, Null when they match none
hundredNameOfWindow(tokens, index) ==
    matchHundredName(toUpperCase(join(sliceLast(tokens, index))))

\* the longest of the windows of 4 down to 1 tokens that match a hundred name;
\* 0 when none does
longestHundredWindow(tokens) ==
    leastOf({index \in 1..4 :
                /\ hundredNameOfWindow(tokens, index) # Null
                /\ \A longer \in (index + 1)..4 :
                       hundredNameOfWindow(tokens, longer) = Null}, 0)

\* the suburbs of the hundred name of the window
suburbsOfWindow(tokens, index) == get(HundredNames, hundredNameOfWindow(tokens, index))

\* C15: formatAddress looks for a hundred name before it looks for a suburb
\* name; once a window of 4 down to 1 trailing tokens matches a hundred name the
\* search for a suburb name is skipped, whether the hundred has one suburb or
\* several; only when the hundred has exactly one suburb is that suburb adopted
\* and are the tokens of the window removed.
C15HundredBeforeSuburb ==
    Tokenised =>
        LET window == longestHundredWindow(formatted.tokens)
        IN  /\ formatted.hasHundredName <=> window > 0
            /\ formatted.hundredIndex = window
            /\ window = 0 => formatted.hundredSuburbName = Undefined
            /\ window > 0 =>
                   /\ formatted.suburbIndex = 0
                   /\ IF Len(suburbsOfWindow(formatted.tokens, window)) = 1
                      THEN /\ formatted.hundredSuburbName =
                                  get(SuburbNames, suburbsOfWindow(formatted.tokens, window)[1])
                           /\ formatted.suburbTokens = spliceLast(formatted.tokens, window)
                      ELSE /\ formatted.hundredSuburbName = Undefined
                           /\ formatted.suburbTokens = formatted.tokens

\* the last token is the name of a suburb and of a hundred with two suburbs:
\* the hundred name is found, the suburb name is not looked for, no token is
\* removed and no suburb is adopted
C15Witness ==
    /\ Tokenised
    /\ formatted.hasHundredName
    /\ Len(suburbsOfWindow(formatted.tokens, formatted.hundredIndex)) = 2
    /\ ~matchesNoSuburbName(formatted.tokens)
    /\ formatted.suburbIndex = 0
    /\ formatted.suburbTokens = formatted.tokens
    /\ formatted.hundredSuburbName = Undefined

----------------------------------------------------------------------------
(* Properties of the suburb names (SpecSuburbNames)                        *)

\* the name of a line of suburbnames.txt, as main makes a key of it
keyOfLine(line) == trim(toUpperCase(split(line, ",")[1]))

----------------------------------------------------------------------------
(* Properties of addressComparer (SpecAddressComparer)                     *)

\* both addresses matched a street name to within two spelling errors
bothWithinTwo == candidateA.threshold <= 2 /\ candidateB.threshold <= 2

\* the comparer and the sort put first before second
ordersFirst(first, second) ==
    /\ compared.exit # "pending" =>
           compared = Returned(IF first = candidateA THEN -1 ELSE 1)
    /\ sorted # <<>> => sorted = <<first, second>>

\* C9: of two addresses with thresholds of at most 2, one with a house number
\* and one without, addressComparer orders the one with the house number first,
\* whichever has the smaller threshold.
C9HouseNumberFirst ==
    /\ (bothWithinTwo /\ candidateA.houseNumber # <<>> /\ candidateB.houseNumber = <<>>)
           => ordersFirst(candidateA, candidateB)
    /\ (bothWithinTwo /\ candidateA.houseNumber = <<>> /\ candidateB.houseNumber # <<>>)
           => ordersFirst(candidateB, candidateA)

\* the address with the house number has the larger threshold and comes first
C9Witness ==
    /\ candidateA.houseNumber = <<>> /\ candidateA.threshold = 0
    /\ candidateB.houseNumber # <<>> /\ candidateB.threshold = 2
    /\ compared = Returned(1)
    /\ sorted = <<candidateB, candidateA>>

\* C10: of two addresses with equal thresholds and equal house number presence,
\* exactly one of which belongs to a candidate flagged hasInvalidHundredName,
\* addressComparer orders the unflagged one first.
C10UnflaggedFirst ==
    LET alike == /\ candidateA.threshold = candidateB.threshold
                 /\ (candidateA.houseNumber = <<>>) <=> (candidateB.houseNumber = <<>>)
    IN  /\ ( /\ alike
             /\ ~candidateA.candidate.hasInvalidHundredName
             /\ candidateB.candidate.hasInvalidHundredName )
               => ordersFirst(candidateA, candidateB)
        /\ ( /\ alike
             /\ candidateA.candidate.hasInvalidHundredName
             /\ ~candidateB.candidate.hasInvalidHundredName )
               => ordersFirst(candidateB, candidateA)

\* the first address belongs to the flagged candidate and is moved behind
C10Witness ==
    /\ candidateA.threshold = 1 /\ candidateB.threshold = 1
    /\ candidateA.houseNumber # <<>> /\ candidateB.houseNumber # <<>>
    /\ candidateA.candidate.hasInvalidHundredName
    /\ ~candidateB.candidate.hasInvalidHundredName
    /\ compared = Returned(1)
    /\ sorted = <<candidateB, candidateA>>

----------------------------------------------------------------------------
(* Properties of getPercentageOfElementInRectangle (SpecOverlap)           *)

\* the element lies fully inside the rectangle, its edges included
liesInside(inner, outer) ==
    /\ atLeast(inner.x, outer.x)
    /\ atLeast(inner.y, outer.y)
    /\ scaled(outer.x, -8) + scaled(outer.width, -8)
           >= scaled(inner.x, -8) + scaled(inner.width, -8)
    /\ scaled(outer.y, -8) + scaled(outer.height, -8)
           >= scaled(inner.y, -8) + scaled(inner.height, -8)

hasZeroArea(rectangle) ==
    rectangle.width = double(0, 0) \/ rectangle.height = double(0, 0)

\* C11: getPercentageOfElementInRectangle returns 0 for every element of zero
\* area, whatever the rectangle, and exactly 100 for every element of positive
\* area that lies fully inside the rectangle.
C11ZeroOrHundred ==
    overlapPercentage # Pending =>
        /\ hasZeroArea(overlapElement) => overlapPercentage = double(0, 0)
        /\ (~hasZeroArea(overlapElement) /\ liesInside(overlapElement, overlapRectangle))
               => overlapPercentage = double(25, 2)

----------------------------------------------------------------------------
(* The records of the page parsers                                         *)

NoDescriptionProvided == <<"N","o"," ","d","e","s","c","r","i","p","t","i","o","n"," ","p","r","o","v","i","d","e","d">>

\* the description text a page holds to the right of its description heading
descriptionTextOf(options) ==
    IF options.description = "present" THEN <<"S","h","e","d">> ELSE <<>>

\* C16: every record a page parser returns has a non-empty applicationNumber,
\* a non-empty address and a non-empty description, and the description is
\* "No description provided" exactly when the page gave no description text
C16RecordsAreComplete ==
    pageResult.exit = "return" =>
        /\ pageResult.value.applicationNumber # <<>>
        /\ pageResult.value.address # <<>>
        /\ pageResult.value.description # <<>>
        /\ (pageResult.value.description = NoDescriptionProvided)
               <=> (descriptionTextOf(pageOptions) = <<>>)
        /\ descriptionTextOf(pageOptions) # <<>>
               => pageResult.value.description = descriptionTextOf(pageOptions)

\* a record with the placeholder, from a page with a description heading and
\* no text next to it
C16Witness ==
    /\ pageResult.exit = "return"
    /\ pageOptions.description = "no text"
    /\ pageResult.value.description = NoDescriptionProvided
    /\ pageResult.value.applicationNumber # <<>>
    /\ pageResult.value.address # <<>>

\* the page with the same parts and a date that can be parsed
withValidDate(options) == [options EXCEPT !.date = "valid"]

hasApplicationFeesFragment(options) ==
    \E i \in 1..Len(elementsOfPage(options)) :
        removeChars(toLowerCase(elementsOfPage(options)[i].text), WhiteSpace)
            = <<"a","p","p","l","i","c","a","t","i","o","n","f","e","e","s",":">>

\* C18: for every page exactly one of the two page parsers runs: the parser
\* of the old format exactly when some fragment of the page has the normalized
\* text "applicationfees:", and the parser of the new format otherwise
C18OneParserPerPage ==
    pageResult # Pending =>
        /\ pageParser \in {"parseOldFormatApplicationElements",
                            "parseNewFormatApplicationElements"}
        /\ (pageParser = "parseOldFormatApplicationElements")
               <=> hasApplicationFeesFragment(pageOptions)
        /\ pageResult =
               IF hasApplicationFeesFragment(pageOptions)
               THEN parseOldFormatApplicationElements(
                        sortElements(elementsOfPage(pageOptions)), "2018/register.pdf")
               ELSE parseNewFormatApplicationElements(
                        sortElements(elementsOfPage(pageOptions)), "2018/register.pdf")

\* a page whose fees heading is in upper case, with white space in it, went to
\* the parser of the old format, which found the application
C18Witness ==
    /\ pageResult.exit = "return"
    /\ pageOptions.fees = "heading"
    /\ pageOptions.layout = "old"
    /\ pageParser = "parseOldFormatApplicationElements"

----------------------------------------------------------------------------
(* Properties of the loops of main and parsePdf (Spec)                     *)

\* main has ended, by returning or by the rejection of an awaited promise
mainEnded == pc \in {"done", "failed"}

\* C19: when insertRow fails for a record, the remaining records of the
\* document and the records of the later documents are still passed to
\* insertRow: main ends only when it has handed the last record of the last
\* selected document to insertRow
C19FailureDoesNotBlockInserts ==
    mainEnded =>
        /\ pdfIndex = Len(selectedPdfUrls)
        /\ saveIndex >= Len(developmentApplications)

\* C20: every document parsePdf acquired with getDocument has been destroyed
\* when parsePdf returns
C20EveryDocumentDestroyed == parsePdfReturned => destroyed = acquired

\* once main is past the reading of the files, a step leaves the four maps as
\* they are
gazetteerKept == pc # "load" => gazetteer' = gazetteer

\* C21: the four gazetteer maps are built once in main before the first
\* document is fetched or parsed, and no later operation changes them: while
\* main reads the files no document has been acquired, parsed or saved, from
\* then on the maps are those of the files, and no later step changes them
C21GazetteerBuiltOnce ==
    /\ [](pc = "load" => (acquired = 0 /\ pages = <<>> /\ inserted = <<>>
                              /\ selectedPdfUrls = <<>>))
    /\ [](pc # "load" => GazetteerLoaded)
    /\ [][gazetteerKept]_vars

\* main has parsed the pages of a document and saved a record, and the maps
\* are those of the files
C21Witness ==
    /\ pc = "done"
    /\ Len(pages) = MaxPages
    /\ Len(inserted) >= 1
    /\ acquired > 0
    /\ GazetteerLoaded

\* C22: parsePdf terminates for every document: it parses at most 100 pages,
\* stopping at the reported page count when that is smaller, and stopping
\* after page 100 even when the reported page count is larger
C22ParsePdfTerminates ==
    /\ <>parsePdfReturned
    /\ [](Len(pages) <= PageLimit /\ Len(pages) <= numPages)
    /\ [](parsePdfReturned =>
             Len(pages) = IF numPages < PageLimit THEN numPages ELSE PageLimit)

\* parsePdf has returned after 100 pages of a register that reports more
C22Witness ==
    /\ parsePdfReturned
    /\ numPages > PageLimit
    /\ Len(pages) = PageLimit
    /\ pageIndex = PageLimit

----------------------------------------------------------------------------
(* The text of a value rectangle (SpecValueText)                           *)

\* the value each of the EdgeFragments belongs to, and whether more than a
\* tenth of it lies inside the rectangle of that value: 20, 10, 100, 100, 10,
\* 20 and 10 percent
ValueOfEdgeFragment ==
    <<"address", "address", "description", "description", "description",
      "description", "description">>
MoreThanTenPercentInside == <<TRUE, FALSE, TRUE, TRUE, FALSE, TRUE, FALSE>>

\* the texts of the fragments of a page that count for a value, from the
\* first of the EdgeFragments to the last
RECURSIVE textsExpected(_, _, _)
textsExpected(options, value, from) ==
    IF from > Len(EdgeFragments) THEN <<>>
    ELSE (IF /\ \E i \in 1..Len(options.fragments) : options.fragments[i] = from
             /\ ValueOfEdgeFragment[from] = value
             /\ MoreThanTenPercentInside[from]
          THEN <<EdgeFragments[from].text>> ELSE <<>>)
         \o textsExpected(options, value, from + 1)

\* C23: the address and the description of a page are built from exactly the
\* fragments whose overlap with the rectangle of the value is more than 10
\* percent, joined with single spaces in ascending (y, then x) order whatever
\* the order they were delivered in; a fragment with an overlap of exactly 10
\* percent is left out
C23ValueTextFromOverlappingFragments ==
    pageResult # Pending =>
        /\ pageResult.exit = "return"
        /\ pageResult.value.address =
               formatAddress(pageResult.value.applicationNumber,
                   join(<<<<"5"," ","B","A","Y"," ","R","D">>>> \o textsExpected(pageOptions, "address", 1)))
        /\ pageResult.value.description =
               IF textsExpected(pageOptions, "description", 1) = <<>>
               THEN NoDescriptionProvided
               ELSE join(textsExpected(pageOptions, "description", 1))

\* the fragments were delivered in descending order before the headings, one
\* of them with an overlap of exactly 10 percent, and the description is that
\* of the other two in ascending order
C23Witness ==
    /\ pageResult.exit = "return"
    /\ ~pageOptions.headingsFirst
    /\ pageOptions.fragments[1] = 6
    /\ pageOptions.fragments[2] = 5
    /\ pageOptions.fragments[3] = 3
    /\ LET percentage == getPercentageOfElementInRectangle(EdgeFragments[5],
                              [x |-> 50, y |-> 70, width |-> 50, height |-> 40])
       IN  percentage.numerator = 10 * percentage.denominator
    /\ pageResult.value.description = <<"N","e","w"," ","c","a","r","p","o","r","t">>

----------------------------------------------------------------------------
(* Properties of intersect (SpecOverlap)                                   *)

ZeroRectangle ==
    [x |-> double(0, 0), y |-> double(0, 0), width |-> double(0, 0), height |-> double(0, 0)]

\* the rectangle intersect returned to getPercentageOfElementInRectangle
intersection == intersectDouble(overlapRectangle, overlapElement)

\* the edges of a rectangle as they are, without rounding, in units of 2^-8
leftOf(rectangle) == scaled(rectangle.x, -8)
rightOf(rectangle) == scaled(rectangle.x, -8) + scaled(rectangle.width, -8)
topOf(rectangle) == scaled(rectangle.y, -8)
bottomOf(rectangle) == scaled(rectangle.y, -8) + scaled(rectangle.height, -8)

\* the two rectangles have a point in common, their edges included
haveCommonPoint(a, b) ==
    /\ leftOf(a) <= rightOf(a) /\ leftOf(b) <= rightOf(b)
    /\ topOf(a) <= bottomOf(a) /\ topOf(b) <= bottomOf(b)
    /\ leftOf(a) <= rightOf(b) /\ leftOf(b) <= rightOf(a)
    /\ topOf(a) <= bottomOf(b) /\ topOf(b) <= bottomOf(a)

\* the two rectangles have a region of positive area in common
haveCommonArea(a, b) ==
    /\ leftOf(a) < rightOf(b) /\ leftOf(b) < rightOf(a)
    /\ leftOf(a) < rightOf(a) /\ leftOf(b) < rightOf(b)
    /\ topOf(a) < bottomOf(b) /\ topOf(b) < bottomOf(a)
    /\ topOf(a) < bottomOf(a) /\ topOf(b) < bottomOf(b)

hasNegativeSize(rectangle) ==
    rectangle.width.mantissa < 0 \/ rectangle.height.mantissa < 0

----------------------------------------------------------------------------
(* The state in the addresses of formatAddress (SpecFormatAddress)         *)

\* C25: every non-empty address formatAddress returns contains the word "SA",
\* and " SA" is appended exactly when the assembled address does not contain
\* it
C25ContainsStateSA ==
    (Formatted /\ formatted.result # <<>>) =>
        /\ containsWord(formatted.result, <<"S","A">>)
        /\ formatted.exit = "end" =>
               LET assembled == reconstructAddress(formatted.streetTokens,
                                    formatted.streetName, formatted.suburbName,
                                    formatted.fallbackAddress)
               IN  formatted.result =
                       IF containsWord(assembled, <<"S","A">>)
                       THEN assembled
                       ELSE assembled \o <<" ","S","A">>

----------------------------------------------------------------------------
(* The addresses of parseAddress (SpecParseAddress)                        *)

parseAddressSplit == parsedAddress.exit \in {"undefined", "return"}

\* the full street names of the candidates, candidate by candidate and index
\* by index
constructedStreetNames ==
    [k \in 1..(Len(parsedAddress.candidates) * Len(parsedAddress.houseNumberTokens)) |->
        fullStreetName(
            parsedAddress.candidates[((k - 1) \div Len(parsedAddress.houseNumberTokens)) + 1],
            ((k - 1) % Len(parsedAddress.houseNumberTokens)) + 1)]

isStreetReference(name) == name # <<>> /\ ~isHundredStreetName(name)

\* those that are not blank and are not a hundred reference
streetReferences == SelectSeq(constructedStreetNames, isStreetReference)

\* whether a known street name is within k edits of name
matchExists(name, k) ==
    \E i \in 1..Len(StreetNames) :
        withinEditDistance(normalizeString(name), normalizeString(StreetNames[i].key), k)

\* the smallest of 0, 1, 2 at which a match exists, or the sentinel
smallestThreshold(name) ==
    leastOf({k \in {0, 1, 2} : matchExists(name, k)}, Number_MAX_VALUE)

\* C26: every street reference yields one address, whose threshold is the
\* smallest of 0, 1, 2 at which a known street name matches the constructed
\* street name; when there is none the address keeps the constructed name with
\* the threshold Number.MAX_VALUE
C26SmallestThresholdRecorded ==
    parseAddressSplit =>
        /\ Len(parsedAddress.addresses) = Len(streetReferences)
        /\ \A i \in 1..Len(streetReferences) :
               /\ parsedAddress.addresses[i].threshold
                      = smallestThreshold(streetReferences[i])
               /\ parsedAddress.addresses[i].threshold \in {0, 1, 2, Number_MAX_VALUE}
               /\ parsedAddress.addresses[i].threshold = Number_MAX_VALUE
                      => parsedAddress.addresses[i].streetName = streetReferences[i]

\* one call yields a match that needs two edits next to an exact match, and
\* other calls yield a match at one edit and no match
C26Witness ==
    /\ parseAddressSplit
    /\ \E i, j \in 1..Len(parsedAddress.addresses) :
           /\ parsedAddress.addresses[i].threshold = 2
           /\ parsedAddress.addresses[i].streetName # streetReferences[i]
           /\ matchExists(streetReferences[i], 2)
           /\ ~matchExists(streetReferences[i], 1)
           /\ parsedAddress.addresses[j].threshold = 0

\* the suburbs the gazetteer associates with a resolved street name
associatedSuburbs(streetName) ==
    IF didYouMean(streetName, keys(StreetNames), 0) = Null THEN <<>>
    ELSE get(StreetNames, didYouMean(streetName, keys(StreetNames), 0))

\* C27: an address whose resolved street name has exactly one associated
\* suburb, at an index for which the suburb field gives no suburb, has that
\* suburb
C27SuburbBackFilled ==
    parseAddressSplit =>
        \A i \in 1..Len(parsedAddress.addresses) :
            \A index \in 1..Len(parsedAddress.houseNumberTokens) :
                (/\ parsedAddress.addresses[i].houseNumber
                        = parsedAddress.houseNumberTokens[index]
                 /\ parsedAddress.addresses[i].threshold <= 2
                 /\ Len(associatedSuburbs(parsedAddress.addresses[i].streetName)) = 1
                 /\ associatedSuburbName(split(addressFields.suburbName, Delimiter), index)
                        = <<>>)
                => parsedAddress.addresses[i].suburbName
                       = associatedSuburbs(parsedAddress.addresses[i].streetName)[1]

\* the tokens of the fields, counted apart from parseAddress
houseNumberCount == Len(split(addressFields.houseNumber, Delimiter))
streetTokenCount == Len(split(addressFields.streetName, Delimiter))

\* the middle token of the street field, "" when the field is too short to
\* have one
middleStreetToken ==
    IF streetTokenCount >= houseNumberCount
    THEN split(addressFields.streetName, Delimiter)[houseNumberCount]
    ELSE <<>>

\* its spaces, the added one included
spacesOfMiddleToken ==
    IF " " \in Range(middleStreetToken)
    THEN Cardinality({i \in 1..Len(middleStreetToken) : middleStreetToken[i] = " "})
    ELSE 1

\* C28 as stated: one candidate for each space of the middle token, at least
\* one candidate, and group1 and group2 of exactly N pieces in every candidate
C28AsStated ==
    parseAddressSplit =>
        /\ Len(parsedAddress.candidates) = spacesOfMiddleToken
        /\ Len(parsedAddress.candidates) >= 1
        /\ \A i \in 1..Len(parsedAddress.candidates) :
               /\ Len(parsedAddress.candidates[i].group1) = houseNumberCount
               /\ Len(parsedAddress.candidates[i].group2) = houseNumberCount

\* C28: one candidate for each space of the middle token, at least one
\* candidate, group1 of exactly N pieces, and group2 of N pieces when the
\* street field has at most 2N - 1 tokens and of one piece more for each
\* token beyond that
C28GroupsOfCandidates ==
    parseAddressSplit =>
        /\ Len(parsedAddress.candidates) = spacesOfMiddleToken
        /\ Len(parsedAddress.candidates) >= 1
        /\ \A i \in 1..Len(parsedAddress.candidates) :
               /\ Len(parsedAddress.candidates[i].group1) = houseNumberCount
               /\ Len(parsedAddress.candidates[i].group2)
                      = Max(houseNumberCount, streetTokenCount - houseNumberCount + 1)

\* a street field of five tokens for two house numbers: group2 has four pieces
C28Witness ==
    /\ parseAddressSplit
    /\ houseNumberCount = 2
    /\ streetTokenCount > 2 * houseNumberCount - 1
    /\ Len(parsedAddress.candidates[1].group2) > houseNumberCount

----------------------------------------------------------------------------
(* The ordering of addressComparer (SpecAddressComparer)                   *)

\* addressComparer reports a before b
reportsBefore(a, b) == sortOrder(addressComparer(a, b)) < 0

\* addressComparer reports neither before the other
comparesAsTied(a, b) ==
    sortOrder(addressComparer(a, b)) = 0 /\ sortOrder(addressComparer(b, a)) = 0

\* the addresses that may be pushed along with candidateA and candidateB: the
\* addresses of one candidate share its flag
ThirdCandidates ==
    {c \in AddressCandidates :
        /\ c.candidate.index = candidateA.candidate.index
               => c.candidate = candidateA.candidate
        /\ c.candidate.index = candidateB.candidate.index
               => c.candidate = candidateB.candidate}

\* the orders in which three addresses may be pushed
emissionOrders(a, b, c) ==
    {<<a, b, c>>, <<a, c, b>>, <<b, a, c>>, <<b, c, a>>, <<c, a, b>>, <<c, b, a>>}

\* the addresses that come first when a, b and c are sorted, over every order
\* they may be pushed in and every engine
bestOfThree(a, b, c) ==
    {sortAddresses(order, engine)[1] :
        order \in emissionOrders(a, b, c), engine \in SortEngines}

\* C29: addressComparer never reports both a before b and b before a; when
\* it reports a before b and b before c it reports a before c; and the
\* addresses that come first after the sort, in whatever order the addresses
\* were pushed, compare as tied
C29ConsistentOrdering ==
    compared.exit # "pending" =>
        /\ ~(reportsBefore(candidateA, candidateB) /\ reportsBefore(candidateB, candidateA))
        /\ compared = addressComparer(candidateA, candidateB)
        /\ \A c \in AddressCandidates :
               (reportsBefore(candidateA, candidateB) /\ reportsBefore(candidateB, c))
                   => reportsBefore(candidateA, c)
        /\ \A c \in ThirdCandidates :
               \A first, other \in bestOfThree(candidateA, candidateB, c) :
                   first = other \/ comparesAsTied(first, other)
        /\ \A engine \in SortEngines :
               \/ sortTwo(candidateA, candidateB, engine)[1]
                      = sortTwo(candidateB, candidateA, engine)[1]
               \/ comparesAsTied(candidateA, candidateB)

\* an address with a house number at two spelling errors was compared with one
\* without a house number that matched exactly, and a third address without
\* a match comes behind both
C29Witness ==
    /\ compared.exit = "return"
    /\ sorted # <<>>
    /\ candidateA.threshold = 2 /\ candidateA.houseNumber # <<>>
    /\ candidateB.threshold = 0 /\ candidateB.houseNumber = <<>>
    /\ reportsBefore(candidateA, candidateB)
    /\ \E c \in ThirdCandidates :
           /\ c.threshold = Number_MAX_VALUE
           /\ reportsBefore(candidateB, c)
           /\ reportsBefore(candidateA, c)
           /\ bestOfThree(candidateA, candidateB, c) = {candidateA}

----------------------------------------------------------------------------
(* The application heading of the new format (SpecParsePage)               *)

\* the words of the heading of the description
WordsOfDescriptionHeading ==
    {<<"D","e","v","e","l","o","p","m","e","n","t">>,
     <<"D","e","s","c","r","i","p","t","i","o","n">>}

\* C30: the application number of a record of the parser of the new format is
\* never a word of the heading "Development Description"
C30HeadingIsNotDescription ==
    (pageResult.exit = "return" /\ pageParser = "parseNewFormatApplicationElements")
        => pageResult.value.applicationNumber \notin WordsOfDescriptionHeading

====
